---- MODULE Spec2Model ----
(***************************************************************************)
(* Verification model of src/ellipses/operators.py: the linear operators   *)
(* (Fourier, Fourier_matrix, Radon, TVAnalysisPeriodic, Wavelet) and the   *)
(* differentiable CG layer.                                                *)
(*                                                                         *)
(* Conventions.  A vector is a sequence; an image is a sequence of rows;   *)
(* sequences are 1-based here while the Python indices they stand for are  *)
(* 0-based.  A raised Python exception is the string naming it.            *)
(***************************************************************************)
EXTENDS Integers, Sequences, FiniteSets, TLC

VARIABLES
    tvN,        \* TVAnalysisPeriodic.n : the domain (n0, n1)
    tvM,        \* TVAnalysisPeriodic.m
    tvX,        \* last image passed to TVAnalysisPeriodic.dot
    tvDotOut,   \* what that call returned
    tvY,        \* last vector passed to TVAnalysisPeriodic.adj
    tvAdjOut,   \* what that call returned (or the exception it raised)
    tvInvY,     \* last vector passed to TVAnalysisPeriodic.inv
    tvInvOut,   \* what that call produced
    tvKernel,   \* what TVAnalysisPeriodic.get_fourier_kernel returned
    foKind,     \* "Fourier" or "Fourier_matrix"
    foMaskT,    \* the mask tensor given to the constructor: the planes
                \* mask[b, c, :, :] in row-major order of (b, c)
    foM,        \* self.m
    foN,        \* self.n
    foMask,     \* self.mask
    foOrig,     \* the argument of the first call of the current chain
    foCalls,    \* the calls of the current chain: each call after the
                \* first is applied to the result of the one before
    foOuts,     \* what each call of the chain produced
    wvN,        \* Wavelet.in_shape
    wvLevel,    \* Wavelet.level
    wvSlices,   \* Wavelet.slices
    wvOutShape, \* Wavelet.out_shape
    wvM,        \* Wavelet.m
    wvOrig,     \* the argument of the first call of the current chain
    wvCalls,    \* the calls of the current chain
    wvOuts,     \* what each call of the chain produced
    rdArgs,     \* the arguments (n, len(theta)) given to Radon.__init__
    rdSelf,     \* what Radon.__init__ produced: the operator's fields
                \* n, m, m_shape and adj_factor, or the exception
    rdOrig,     \* the argument of the first call of the current chain
    rdCalls,    \* the calls of the current chain
    rdOuts,     \* what each call of the chain produced
    cgOpts,     \* rtol, atol, maxiter, verbose of _CGInverterFunc and
                \* whether a preconditioner M_bmm was given
    cgIn,       \* the inputs (B, X0) of _CGInverter.forward
    cgCtx,      \* ctx.in_grads
    cgFwd,      \* what forward returned
    cgDX,       \* the output gradient handed to _CGInverter.backward
    cgBwd,      \* what backward returned
    cgLog,      \* the tensors computed so far: every cg_batch solve and
                \* every product, in order
    enCall,     \* the call that started the running engine
    enArgs,     \* the arguments the engine was started with
    enState,    \* "Idle", "Init", "Iterate", "Converged" or
                \* "IterationBudgetExhausted"
    enK,        \* iterations completed
    enPhase,    \* the update an ADMM iteration makes next: "x", "z", "u"
    enX,        \* the iterate x
    enZ,        \* the split variable z of ADMM
    enU,        \* the dual variable u of ADMM
    enOut,      \* what the engine returned
    shC,        \* the argument of the last call of shrink: a tensor or a
                \* nested list of tensors
    shThresh,   \* the threshold of that call
    shOut,      \* what that call returned
    gsIdx,      \* the noise level idx the main loop of the grid search
                \* script is at, counted from 1; 0 before the loop
    gsRuns,     \* the calls of _reconstruct the running grid_search made
    gsErr,      \* the error computed for each of them
    gsBest,     \* the position of the best grid point so far; 0: none
    gsOut,      \* what grid_search returned
    tkN,        \* the domain of OpA = Fourier(mask) and of OpTV
    tkMask,     \* OpA.mask
    tkKernel,   \* what OpTV.get_fourier_kernel() returned
    tkRho,      \* rho of the last call of OpA.tikh
    tkOut,      \* what that call returned
    rmSelf,     \* the RadialMaskFunc object: shape, num_lines, offset, mask
    rmArg,      \* the shape the mask function was last called with
    rmOut       \* what that call returned

tvVars == <<tvN, tvM, tvX, tvDotOut, tvY, tvAdjOut, tvInvY, tvInvOut,
           tvKernel>>

foVars == <<foKind, foMaskT, foM, foN, foMask, foOrig, foCalls, foOuts>>

wvVars == <<wvN, wvLevel, wvSlices, wvOutShape, wvM, wvOrig, wvCalls, wvOuts>>

rdVars == <<rdArgs, rdSelf, rdOrig, rdCalls, rdOuts>>

cgVars == <<cgOpts, cgIn, cgCtx, cgFwd, cgDX, cgBwd, cgLog>>

enVars == <<enCall, enArgs, enState, enK, enPhase, enX, enZ, enU, enOut>>

shVars == <<shC, shThresh, shOut>>

gsVars == <<gsIdx, gsRuns, gsErr, gsBest, gsOut>>

tkVars == <<tkN, tkMask, tkKernel, tkRho, tkOut>>

rmVars == <<rmSelf, rmArg, rmOut>>

vars == <<tvVars, foVars, wvVars, rdVars, cgVars, enVars, shVars, gsVars,
          tkVars, rmVars>>

\* what a call produced: st is "none" before the first call, "ok" when the
\* call returned val, and otherwise the name of the exception it raised
Ret(v) == [st |-> "ok", val |-> v]

Raise(e) == [st |-> e, val |-> <<>>]

NotCalled == [st |-> "none", val |-> <<>>]

(***************************************************************************)
(* Bounds                                                                  *)
(***************************************************************************)
\* largest side of a TVAnalysisPeriodic domain
MaxTVDim == 3
\* entries of the images and vectors handed to TVAnalysisPeriodic lie in
\* -MaxTVVal..MaxTVVal
MaxTVVal == 1

\* number of planes mask[b, c] of the mask tensor given to Fourier
MaxMaskPlanes == 2
\* channels of the tensors handed to the Fourier operators
MaxFoChan == 4
\* entries of those tensors lie in 0..MaxFoVal
MaxFoVal == 1
\* the regularization weight rho lies in -MaxRho..MaxRho
MaxRho == 1
\* calls chained on one another's results
MaxChain == 3

\* height and width of the Radon domain lie in 1..MaxRdDim
MaxRdDim == 3
\* number of angles theta of Radon
MaxAngles == 2
\* batch size of the tensors handed to Radon and to the CG layer
MaxBatch == 2
\* height and width of the signals of the CG layer lie in 1..MaxCGDim
MaxCGDim == 2

\* entries of the tensors handed to shrink lie in -MaxShVal..MaxShVal
MaxShVal == 2
\* the tensors handed to shrink have 1..MaxShLen entries
MaxShLen == 2
\* thresholds of shrink lie in -1..MaxShThresh
MaxShThresh == 2

\* the mean errors grid_search computes lie in 0..MaxErr
MaxErr == 2

\* rho of the closed-form solve lies in 1..MaxTkRho
MaxTkRho == 2

\* the sides x, y of a radial mask lie in 1..MaxRmDim
MaxRmDim == 4

\* num_lines of a radial mask lies in 0..MaxLines
MaxLines == 2

\* height and width of the Wavelet domain lie in 1..MaxWvDim
MaxWvDim == 3
\* the decomposition level of Wavelet lies in 0..MaxLevel
MaxLevel == 2
\* batch size of the tensors handed to Wavelet
MaxWvBatch == 2
\* entries of those tensors lie in 0..MaxWvVal
MaxWvVal == 1

(***************************************************************************)
(* Python / torch helpers                                                  *)
(***************************************************************************)
\* a sequence given as a function, evaluated once into a tuple
V(f) == f \o <<>>

Max(a, b) == IF a >= b THEN a ELSE b

Min(a, b) == IF a <= b THEN a ELSE b

\* list(range(a, b))
Range(a, b) == V([k \in 1..Max(b - a, 0) |-> a + k - 1])

RECURSIVE SumSeq(_)
SumSeq(s) == IF s = <<>> THEN 0 ELSE Head(s) + SumSeq(Tail(s))

RECURSIVE Concat(_)
\* concatenation of a sequence of sequences
Concat(ss) == IF ss = <<>> THEN <<>> ELSE Head(ss) \o Concat(Tail(ss))

\* im2vec: torch.flatten over the last two dimensions, row-major
im2vec(img) == Concat(img)

\* vec2im: x.view(*x.shape[:-1], *n), row-major
vec2im(v, n) == V([i \in 1..n[1] |-> V([j \in 1..n[2] |-> v[(i - 1) * n[2] + j]])])

\* x[..., perm] is defined when every index is in range (else IndexError)
IndexOk(len, perm) == \A k \in 1..Len(perm) : perm[k] < len

\* x[..., perm] on one vector
IndexSeq(v, perm) == V([k \in 1..Len(perm) |-> v[perm[k] + 1]])

\* the permutation circshift builds for an axis of length len
CircPerm(len, num) == Range(num, len) \o Range(0, num)

\* circshift(x, dim=-1, num): every row is indexed by the permutation
circshiftCols(img, num) ==
    V([i \in 1..Len(img) |-> IndexSeq(img[i], CircPerm(Len(img[i]), num))])

circshiftColsOk(img, num) ==
    \A i \in 1..Len(img) : IndexOk(Len(img[i]), CircPerm(Len(img[i]), num))

\* circshift(x, dim=-2, num): the rows themselves are indexed
circshiftRows(img, num) == IndexSeq(img, CircPerm(Len(img), num))

circshiftRowsOk(img, num) == IndexOk(Len(img), CircPerm(Len(img), num))

ImgSub(a, b) == V([i \in 1..Len(a) |-> V([j \in 1..Len(a[i]) |-> a[i][j] - b[i][j]])])

ImgAdd(a, b) == V([i \in 1..Len(a) |-> V([j \in 1..Len(a[i]) |-> a[i][j] + b[i][j]])])

\* the real inner product of two vectors of the same length
Inner(u, v) == SumSeq(V([k \in 1..Len(u) |-> u[k] * v[k]]))

(***************************************************************************)
(* TVAnalysisPeriodic                                                      *)
(***************************************************************************)
TVDims == 1..MaxTVDim

\* the images handed to dot: a scaled unit impulse, or a constant image
\* (dot and adj are linear, so these span every image)
TVImages(n) ==
    {V([i \in 1..n[1] |-> V([j \in 1..n[2] |->
         IF <<i, j>> = p THEN c ELSE 0])]) :
        p \in (1..n[1]) \X (1..n[2]), c \in (-MaxTVVal)..MaxTVVal}
    \cup {V([i \in 1..n[1] |-> V([j \in 1..n[2] |-> c])]) :
              c \in 1..MaxTVVal}

\* the vectors handed to adj: a scaled unit vector of length m, or zero
TVVectors(m) ==
    {V([k \in 1..m |-> IF k = p THEN c ELSE 0]) :
        p \in 1..m, c \in (-MaxTVVal)..MaxTVVal}

TVdot(x) ==
    LET row_diff == ImgSub(circshiftRows(x, 1), x)
        col_diff == ImgSub(circshiftCols(x, 1), x)
    IN  Ret(im2vec(row_diff) \o im2vec(col_diff))

TVadj(n, y) ==
    LET row_diff == vec2im(SubSeq(y, 1, n[1] * n[2]), n)
        col_diff == vec2im(SubSeq(y, n[1] * n[2] + 1, Len(y)), n)
    IN  IF /\ circshiftRowsOk(row_diff, n[1] - 1)
           /\ circshiftColsOk(col_diff, n[1] - 1)
        THEN Ret(ImgSub(ImgAdd(ImgSub(circshiftRows(row_diff, n[1] - 1),
                                      row_diff),
                               circshiftCols(col_diff, n[1] - 1)),
                        col_diff))
        ELSE Raise("IndexError")

TVConstructed ==
    /\ tvN \in TVDims \X TVDims
    /\ tvM = tvN[1] * tvN[2] * 2
    /\ tvX = <<>>
    /\ tvDotOut = NotCalled
    /\ tvY = <<>>
    /\ tvAdjOut = NotCalled
    /\ tvInvY = <<>>
    /\ tvInvOut = NotCalled
    /\ tvKernel = NotCalled

\* dot(x) on a new image, while no result of dot is held
TVDotCall ==
    /\ tvDotOut.st = "none"
    /\ tvKernel.st = "none"
    /\ \E x \in TVImages(tvN) :
        /\ tvX' = x
        /\ tvDotOut' = TVdot(x)
        /\ UNCHANGED <<tvN, tvM, tvY, tvAdjOut, tvInvY, tvInvOut, tvKernel>>

\* adj(y) on a new vector, while no result of adj is held
TVAdjCall ==
    /\ tvAdjOut.st = "none"
    /\ tvKernel.st = "none"
    /\ \E y \in TVVectors(tvM) :
        /\ tvY' = y
        /\ tvAdjOut' = TVadj(tvN, y)
        /\ UNCHANGED <<tvN, tvM, tvX, tvDotOut, tvInvY, tvInvOut, tvKernel>>

\* an inv that falls back on the adjoint instead of raising
TVinvByAdj(y) == TVadj(tvN, y)

\* TVAnalysisPeriodic.inv
TVinv(y) == Raise("NotImplementedError")

\* inv(y) on the zero vector or the unit impulse at the last position
TVInvCall ==
    /\ tvInvOut.st = "none"
    /\ tvKernel.st = "none"
    /\ \E y \in {V([k \in 1..tvM |-> IF k = tvM THEN a ELSE 0]) : a \in 0..1} :
        /\ tvInvY' = y
        /\ tvInvOut' = TVinv(y)
        /\ UNCHANGED <<tvN, tvM, tvX, tvDotOut, tvY, tvAdjOut, tvKernel>>

\* the caller drops the results; the operator stays
\* a Python index k into an axis of the given size, counted from 0
PyIndex(k, size) == IF k < 0 THEN k + size ELSE k

\* the assignments kernel[0, i, j] = v of get_fourier_kernel, in order
KernelAssignments ==
    <<<<0, 0, 4>>, <<0, 1, -1>>, <<1, 0, -1>>, <<0, -1, -1>>, <<-1, 0, -1>>>>

\* torch.zeros(n[0], n[1]) after these assignments: every entry holds the
\* value last assigned to it
TVKernelSpatial(n) ==
    V([i \in 1..n[1] |-> V([j \in 1..n[2] |->
        LET hits == {k \in 1..Len(KernelAssignments) :
                       /\ PyIndex(KernelAssignments[k][1], n[1]) = i - 1
                       /\ PyIndex(KernelAssignments[k][2], n[2]) = j - 1}
        IN  IF hits = {} THEN 0
            ELSE KernelAssignments[CHOOSE k \in hits : \A h \in hits : h <= k][3]])])

\* TVAnalysisPeriodic.get_fourier_kernel: the shifted 2D FFT of that kernel,
\* or the IndexError of an assignment outside the kernel
get_fourier_kernel(n) ==
    IF \A k \in 1..Len(KernelAssignments) :
          /\ PyIndex(KernelAssignments[k][1], n[1]) \in 0..(n[1] - 1)
          /\ PyIndex(KernelAssignments[k][2], n[2]) \in 0..(n[2] - 1)
    THEN Ret(<<"fftshift", <<"fft", TVKernelSpatial(n)>>>>)
    ELSE Raise("IndexError")

TVKernelCall ==
    /\ tvDotOut.st = "none" /\ tvAdjOut.st = "none" /\ tvInvOut.st = "none"
    /\ tvKernel.st = "none"
    /\ tvKernel' = get_fourier_kernel(tvN)
    /\ UNCHANGED <<tvN, tvM, tvX, tvDotOut, tvY, tvAdjOut, tvInvY, tvInvOut>>

TVDiscard ==
    /\ \/ tvDotOut.st # "none" \/ tvAdjOut.st # "none" \/ tvInvOut.st # "none"
       \/ tvKernel.st # "none"
    /\ tvX' = <<>>
    /\ tvDotOut' = NotCalled
    /\ tvY' = <<>>
    /\ tvAdjOut' = NotCalled
    /\ tvInvY' = <<>>
    /\ tvInvOut' = NotCalled
    /\ tvKernel' = NotCalled
    /\ UNCHANGED <<tvN, tvM>>

(***************************************************************************)
(* Complex numbers and the discrete Fourier transform                      *)
(*                                                                         *)
(* A complex number is the pair <<re, im>> of integers.  The transforms    *)
(* of the program are normalized (orthonormal): each divides by sqrt(N),   *)
(* N the number of pixels.  A tensor that went through them is kept        *)
(* exactly, as the record [k, v] of value v / sqrt(N)^k: every normalized  *)
(* transform adds one to k.                                                *)
(***************************************************************************)
CAdd(a, b) == <<a[1] + b[1], a[2] + b[2]>>

CMul(a, b) == <<a[1] * b[1] - a[2] * b[2], a[1] * b[2] + a[2] * b[1]>>

RECURSIVE CSum(_)
CSum(s) == IF s = <<>> THEN <<0, 0>> ELSE CAdd(Head(s), CSum(Tail(s)))

\* exp(-2 pi i e / n), or its conjugate for the inverse transform; n is 1,
\* 2 or 4, so it is a power of -i
Twiddle(n, e, inverse) ==
    LET q == (4 * (e % n)) \div n
        w == CASE q = 0 -> <<1, 0>>
               [] q = 1 -> <<0, -1>>
               [] q = 2 -> <<-1, 0>>
               [] q = 3 -> <<0, 1>>
    IN  IF inverse THEN <<w[1], -w[2]>> ELSE w

\* torch.fft / torch.ifft of one complex vector, before normalization
DFT1(v, inverse) ==
    LET n == Len(v)
    IN  V([k \in 1..n |->
            CSum(V([j \in 1..n |->
                     CMul(v[j], Twiddle(n, (j - 1) * (k - 1), inverse))]))])

\* torch.roll along one axis: the entry at i moves to (i + shift) mod n
roll(v, shift) ==
    V([k \in 1..Len(v) |-> v[((k - 1 - shift) % Len(v)) + 1]])

fftshift(v) == roll(v, Len(v) \div 2)

ifftshift(v) == roll(v, (Len(v) + 1) \div 2)

Transpose(img) ==
    V([j \in 1..Len(img[1]) |-> V([i \in 1..Len(img) |-> img[i][j]])])

\* apply F to every row (the last axis) of an image
AlongRows(F(_), img) == V([i \in 1..Len(img) |-> F(img[i])])

\* apply F to every column (the axis before the last) of an image
AlongCols(F(_), img) == Transpose(AlongRows(F, Transpose(img)))

\* the centred 2D transform of one complex image, before normalization:
\* ifftshift, DFT over both axes, fftshift
CentredDFT2(img, inverse) ==
    LET pre(v) == ifftshift(v)
        dft(v) == DFT1(v, inverse)
        post(v) == fftshift(v)
        a == AlongCols(pre, AlongRows(pre, img))
        b == AlongCols(dft, AlongRows(dft, a))
    IN  AlongCols(post, AlongRows(post, b))

\* is N the square of r
IsSquareOf(N, r) == r * r = N

\* the canonical form of the tensor v / sqrt(N)^k, v a sequence of integer
\* vectors: zero has k = 0, and a common factor sqrt(N) or N of the entries
\* is cancelled against the exponent, so that equal tensors are equal
\* records
RECURSIVE Canon(_, _, _)
Canon(k, v, N) ==
    LET AllDiv(d) == \A c \in 1..Len(v) : \A q \in 1..Len(v[c]) :
                         v[c][q] % d = 0
        Div(d) == V([c \in 1..Len(v) |->
                       V([q \in 1..Len(v[c]) |-> v[c][q] \div d])])
        AllZero == \A c \in 1..Len(v) : \A q \in 1..Len(v[c]) : v[c][q] = 0
    IN  IF k = 0 \/ N = 1 \/ AllZero
        THEN [k |-> 0, v |-> v]
        ELSE IF k >= 1 /\ (\E r \in 2..N : IsSquareOf(N, r))
                       /\ AllDiv(CHOOSE r \in 2..N : IsSquareOf(N, r))
        THEN Canon(k - 1, Div(CHOOSE r \in 2..N : IsSquareOf(N, r)), N)
        ELSE IF k >= 2 /\ AllDiv(N)
        THEN Canon(k - 2, Div(N), N)
        ELSE [k |-> k, v |-> v]

\* the canonical form of a measurement of shape (C, L)
CanonMeas(k, y, N) == Canon(k, y, N)

\* the canonical form of an image of shape (C, H, W)
CanonImage(k, x, N) ==
    LET c == Canon(k, V([ch \in 1..Len(x) |-> im2vec(x[ch])]), N)
    IN  [k |-> c.k,
         v |-> V([ch \in 1..Len(x) |->
                    vec2im(c.v[ch], <<Len(x[1]), Len(x[1][1])>>)])]

\* transforms.fft2 on a tensor of shape (G, H, W, 2), before normalization
fft2(groups) ==
    V([g \in 1..Len(groups) |-> CentredDFT2(groups[g], FALSE)])

\* transforms.ifft2 on a tensor of shape (G, H, W, 2), before normalization
ifft2(groups) ==
    V([g \in 1..Len(groups) |-> CentredDFT2(groups[g], TRUE)])

\* prep_fft_channel: (C, H, W) -> (C // 2, H, W, 2); the reshape needs an
\* even number of channels
prepOk(x) == (Len(x) \div 2) * 2 = Len(x)

prep_fft_channel(x) ==
    V([g \in 1..(Len(x) \div 2) |->
        V([i \in 1..Len(x[1]) |->
            V([j \in 1..Len(x[1][1]) |->
                <<x[2 * g - 1][i][j], x[2 * g][i][j]>>])])])

\* unprep_fft_channel: (G, H, W, 2) -> (2 * G, H, W)
unprep_fft_channel(t) ==
    V([c \in 1..(2 * Len(t)) |->
        V([i \in 1..Len(t[1]) |->
            V([j \in 1..Len(t[1][1]) |->
                t[(c + 1) \div 2][i][j][2 - (c % 2)]])])])

(***************************************************************************)
(* LearnableFourier1D / LearnableFourier2D with learnable = False          *)
(***************************************************************************)
\* torch.eye(n) as complex rows
EyeRow(n, k) == V([i \in 1..n |-> IF i = k THEN <<1, 0>> ELSE <<0, 0>>])

\* fft_n of LearnableFourier1D.__init__, before normalization: row k is
\* ifftshift(fft(fftshift(eye_n[k])))
FourierMatrix(n, inverse) ==
    V([k \in 1..n |-> ifftshift(DFT1(fftshift(EyeRow(n, k)), inverse))])

\* LearnableFourier1D.forward on one complex vector: self.linear applies
\* the real form [[Re, -Im], [Im, Re]] of fft_n, that is out = fft_n . x
Linear1D(n, inverse, x) ==
    V([k \in 1..n |->
        CSum(V([i \in 1..n |-> CMul(FourierMatrix(n, inverse)[k][i], x[i])]))])

\* LearnableFourier2D.forward on channels 0 and 1 of x, for the domain n:
\* linear2 over the last axis, then linear1 over the one before
Learnable2D(n, inverse, x) ==
    LET cplx == V([i \in 1..Len(x[1]) |->
                   V([j \in 1..Len(x[1][1]) |-> <<x[1][i][j], x[2][i][j]>>])])
        l2(v) == Linear1D(n[2], inverse, v)
        l1(v) == Linear1D(n[1], inverse, v)
    IN  AlongCols(l1, AlongRows(l2, cplx))

\* the failure of LearnableFourier2D.forward, "ok" when there is none:
\* channel 1 must exist, and torch.nn.Linear needs the axis lengths n
Learnable2DStatus(n, x) ==
    IF Len(x) < 2 THEN "IndexError"
    ELSE IF Len(x[1][1]) # n[2] \/ Len(x[1]) # n[1] THEN "RuntimeError"
    ELSE "ok"

(***************************************************************************)
(* Fourier and Fourier_matrix                                              *)
(***************************************************************************)
RECURSIVE CountTrue(_)
\* the number of true entries of a boolean vector
CountTrue(b) ==
    IF b = <<>> THEN 0
    ELSE (IF Head(b) THEN 1 ELSE 0) + CountTrue(Tail(b))

RECURSIVE BoolSelect(_, _)
\* v[b] for a boolean index b of the length of v
BoolSelect(v, b) ==
    IF b = <<>> THEN <<>>
    ELSE (IF Head(b) THEN <<Head(v)>> ELSE <<>>)
             \o BoolSelect(Tail(v), Tail(b))

\* the values written to the head of the grid, whatever the mask
BoolScatterHead(y, b) ==
    V([p \in 1..Len(b) |-> IF p <= Len(y) THEN y[p] ELSE 0])

\* zeros(len(b)) with zeros[b] = y; a y of length 1 is broadcast
BoolScatter(y, b) ==
    V([p \in 1..Len(b) |->
        IF b[p]
        THEN (IF Len(y) = 1 THEN y[1] ELSE y[CountTrue(SubSeq(b, 1, p))])
        ELSE 0])

\* mask.nonzero().shape[0]: counted over the whole mask tensor
FourierM(maskT) ==
    SumSeq(V([p \in 1..Len(maskT) |-> CountTrue(im2vec(maskT[p]))]))

\* mask.shape[-2:]
FourierN(maskT) == <<Len(maskT[1]), Len(maskT[1][1])>>

\* mask[0, 0, :, :].bool()
FourierMask(maskT) == maskT[1]

\* the full transform of dot, in channel layout and before normalization
FullFFT(kind, n, x) ==
    IF kind = "Fourier"
    THEN unprep_fft_channel(fft2(prep_fft_channel(x)))
    ELSE unprep_fft_channel(<<Learnable2D(n, FALSE, x)>>)

\* Fourier.dot / Fourier_matrix.dot
FourierDot(kind, n, mask, x) ==
    LET st == IF kind = "Fourier"
              THEN (IF prepOk(x.v) THEN "ok" ELSE "RuntimeError")
              ELSE Learnable2DStatus(n, x.v)
    IN  IF st # "ok" THEN Raise(st)
        ELSE IF Len(x.v[1]) * Len(x.v[1][1]) # Len(im2vec(mask))
        THEN Raise("IndexError")
        ELSE LET full_fft == FullFFT(kind, n, x.v)
             IN  Ret(CanonMeas(x.k + 1,
                               V([c \in 1..Len(full_fft) |->
                                    BoolSelect(im2vec(full_fft[c]),
                                               im2vec(mask))]),
                               n[1] * n[2]))

\* Fourier.adj / Fourier_matrix.adj
FourierAdj(kind, n, mask, y) ==
    IF Len(y.v[1]) # CountTrue(im2vec(mask)) /\ Len(y.v[1]) # 1
    THEN Raise("RuntimeError")
    ELSE LET masked_fft == V([c \in 1..Len(y.v) |->
                                vec2im(BoolScatter(y.v[c], im2vec(mask)), n)])
         IN  IF kind = "Fourier"
             THEN IF ~prepOk(masked_fft) THEN Raise("RuntimeError")
                  ELSE Ret(CanonImage(y.k + 1,
                               unprep_fft_channel(
                                   ifft2(prep_fft_channel(masked_fft))),
                               n[1] * n[2]))
             ELSE IF Len(masked_fft) < 2 THEN Raise("IndexError")
                  ELSE Ret(CanonImage(y.k + 1,
                               unprep_fft_channel(
                                   <<Learnable2D(n, TRUE, masked_fft)>>),
                               n[1] * n[2]))

\* the entries y0^2 + y1^2 that div_complex divides by, for the combined
\* kernel mask + rho * kernel
TikhDenoms(mask, kernel, rho) ==
    V([i \in 1..Len(mask) |->
        V([j \in 1..Len(mask[i]) |->
            LET y0 == (IF mask[i][j] THEN 1 ELSE 0) + rho * kernel[i][j][1]
                y1 == rho * kernel[i][j][2]
            IN  y0 * y0 + y1 * y1])])

RECURSIVE Product(_)
Product(s) == IF s = <<>> THEN 1 ELSE Head(s) * Product(Tail(s))

\* Fourier.tikh / Fourier_matrix.tikh.  The quotient is kept exact, as the
\* numerators v over the one denominator den; finite is FALSE when
\* div_complex divided by zero, which leaves inf / nan entries and raises
\* nothing
FourierTikh(kind, n, mask, rhs, kernel, rho) ==
    IF Len(rhs.v) # 2 THEN Raise("AssertionError")
    ELSE IF kind = "Fourier_matrix" /\ Learnable2DStatus(n, rhs.v) # "ok"
    THEN Raise(Learnable2DStatus(n, rhs.v))
    ELSE
    LET fft_rhs == IF kind = "Fourier"
                   THEN fft2(prep_fft_channel(rhs.v))[1]
                   ELSE Learnable2D(n, FALSE, rhs.v)
        denom == TikhDenoms(mask, kernel, rho)
        D == Product(im2vec(denom))
        \* x * conj(y), brought to the common denominator D
        num == V([i \in 1..Len(mask) |->
                  V([j \in 1..Len(mask[i]) |->
                     LET y0 == (IF mask[i][j] THEN 1 ELSE 0)
                                   + rho * kernel[i][j][1]
                         y1 == rho * kernel[i][j][2]
                         x0 == fft_rhs[i][j][1]
                         x1 == fft_rhs[i][j][2]
                         f == D \div denom[i][j]
                     IN  <<(x0 * y0 + x1 * y1) * f,
                           (x1 * y0 - x0 * y1) * f>>])])
    IN  IF D = 0
        THEN Ret([k |-> 0, v |-> <<>>, den |-> 0, finite |-> FALSE])
        ELSE LET inv == IF kind = "Fourier"
                        THEN CentredDFT2(num, TRUE)
                        ELSE Learnable2D(n, TRUE,
                                         unprep_fft_channel(<<num>>))
             IN  Ret([k |-> 0, v |-> unprep_fft_channel(<<inv>>),
                      den |-> D * n[1] * n[2], finite |-> TRUE])

\* the sides a Fourier domain can have: the transform above is exact for
\* the lengths whose roots of unity are powers of i
FoDims == {1, 2}

FoShapes == FoDims \X FoDims

BoolImages(n) == [1..n[1] -> [1..n[2] -> BOOLEAN]]

\* the mask tensors given to the constructor: mask[0, 0] is any boolean
\* image, and a tensor of more planes repeats it over them
FoMaskTensorsOf(n, p) ==
    {V([q \in 1..p |-> m]) : m \in BoolImages(n)}

FoMaskTensors ==
    UNION {FoMaskTensorsOf(np[1], np[2]) :
              np \in FoShapes \X (1..MaxMaskPlanes)}

\* the image of shape (C, H, W) that is a at component p and 0 elsewhere
ImpulseImage(C, shape, p, a) ==
    [k |-> 0,
     v |-> V([c \in 1..C |-> V([i \in 1..shape[1] |-> V([j \in 1..shape[2] |->
              IF <<c, i, j>> = p THEN a ELSE 0])])])]

\* the images handed to dot and tikh on the domain n.  Of the domain's
\* shape (2, n0, n1): zero and every scaled unit impulse (the operators are
\* linear, so these span all images).  Of every other shape (C, H, W):
\* zero and the scaled impulses at the first component
FoImages(n) ==
    {ImpulseImage(2, n, p, a) :
        p \in (1..2) \X (1..n[1]) \X (1..n[2]), a \in 1..MaxFoVal}
    \cup {ImpulseImage(Cs[1], Cs[2], <<1, 1, 1>>, a) :
             Cs \in (1..MaxFoChan) \X FoShapes, a \in 0..MaxFoVal}

\* the measurement of shape (C, L) that is a at component p and 0 elsewhere
ImpulseMeasurement(C, L, p, a) ==
    [k |-> 0,
     v |-> V([c \in 1..C |-> V([q \in 1..L |->
              IF <<c, q>> = p THEN a ELSE 0])])]

\* the measurements handed to adj and inv.  Of shape (2, count), count the
\* number of sampled frequencies: zero and every scaled unit impulse.  Of
\* every other shape (C, L) with L among lens: zero and the scaled impulses
\* at the first component
FoMeasurements(count, lens) ==
    {ImpulseMeasurement(2, count, p, a) :
        p \in (1..2) \X (1..count), a \in 1..MaxFoVal}
    \cup {ImpulseMeasurement(CL[1], CL[2], <<1, 1>>, a) :
             CL \in (1..MaxFoChan) \X lens, a \in 0..MaxFoVal}

\* Fourier-domain kernels for the domain n: the constant ones 0 and 1 (the
\* kernels of W = 0 and of W = identity)
FoKernels(n) ==
    {V([i \in 1..n[1] |-> V([j \in 1..n[2] |-> z])]) :
        z \in {<<0, 0>>, <<1, 0>>}}

FoRhos == (-MaxRho)..MaxRho

\* Fourier.__init__ / Fourier_matrix.__init__
FoConstructed ==
    /\ foKind \in {"Fourier", "Fourier_matrix"}
    /\ foMaskT \in FoMaskTensors
    /\ foM = FourierM(foMaskT)
    /\ foN = FourierN(foMaskT)
    /\ foMask = FourierMask(foMaskT)
    /\ foOrig = <<>>
    /\ foCalls = <<>>
    /\ foOuts = <<>>

FoLast == foOuts[Len(foOuts)]

FoStart(call, arg, out) ==
    /\ foOrig' = arg
    /\ foCalls' = <<call>>
    /\ foOuts' = <<out>>
    /\ UNCHANGED <<foKind, foMaskT, foM, foN, foMask>>

FoContinue(call, out) ==
    /\ foCalls # <<>>
    /\ Len(foCalls) < MaxChain
    /\ FoLast.st = "ok"
    /\ foCalls' = Append(foCalls, call)
    /\ foOuts' = Append(foOuts, out)
    /\ UNCHANGED <<foKind, foMaskT, foM, foN, foMask, foOrig>>

\* dot(x) on a new image
FoDotCall ==
    /\ foCalls = <<>>
    /\ \E x \in FoImages(foN) :
           FoStart("dot", x, FourierDot(foKind, foN, foMask, x))

\* adj(y) on a new measurement, of length m, of the number of sampled
\* frequencies, or 1
FoAdjCall ==
    /\ foCalls = <<>>
    /\ \E y \in FoMeasurements(CountTrue(im2vec(foMask)),
                                {foM, CountTrue(im2vec(foMask)), 1}) :
           FoStart("adj", y, FourierAdj(foKind, foN, foMask, y))

\* inv(y) on a new measurement: return self.adj(y)
FoInvCall ==
    /\ foCalls = <<>>
    /\ \E y \in FoMeasurements(CountTrue(im2vec(foMask)),
                                {CountTrue(im2vec(foMask))}) :
           FoStart("inv", y, FourierAdj(foKind, foN, foMask, y))

\* tikh(rhs, kernel, rho) on a new right-hand side of the domain's shape
FoTikhCall ==
    /\ foCalls = <<>>
    /\ \E rhs \in {x \in FoImages(foN) :
                      <<Len(x.v[1]), Len(x.v[1][1])>> = foN},
          kernel \in FoKernels(foN), rho \in FoRhos :
           FoStart("tikh", [rhs |-> rhs, kernel |-> kernel, rho |-> rho],
                   FourierTikh(foKind, foN, foMask, rhs, kernel, rho))

\* dot applied to the image the previous adj or inv returned
FoDotOfResult ==
    /\ foCalls # <<>>
    /\ foCalls[Len(foCalls)] \in {"adj", "inv"}
    /\ FoContinue("dot", FourierDot(foKind, foN, foMask, FoLast.val))

\* adj applied to the measurement the previous dot returned
FoAdjOfResult ==
    /\ foCalls # <<>>
    /\ foCalls[Len(foCalls)] = "dot"
    /\ FoContinue("adj", FourierAdj(foKind, foN, foMask, FoLast.val))

\* the caller drops the results; the operator stays
FoDiscard ==
    /\ foCalls # <<>>
    /\ foOrig' = <<>>
    /\ foCalls' = <<>>
    /\ foOuts' = <<>>
    /\ UNCHANGED <<foKind, foMaskT, foM, foN, foMask>>

(***************************************************************************)
(* The Haar wavelet transform of pywt with mode = "zero"                   *)
(*                                                                         *)
(* One level of the 2D transform scales by 1/2 (1/sqrt(2) per axis), so    *)
(* coefficients are kept exactly as integer numerators over a power of 2:  *)
(* a tensor is [lead, planes, den], lead its leading dimensions, planes    *)
(* the images (or vectors) of its last two (or last) dimensions in         *)
(* row-major order of the leading ones, each entry divided by den.         *)
(***************************************************************************)
Pow2(e) == IF e = 0 THEN 1 ELSE IF e = 1 THEN 2 ELSE IF e = 2 THEN 4
           ELSE IF e = 3 THEN 8 ELSE IF e = 4 THEN 16 ELSE IF e = 5 THEN 32
           ELSE 64

Rows(m) == Len(m)

Cols(m) == IF Len(m) = 0 THEN 0 ELSE Len(m[1])

\* the signal extended by zeros
Pad(v, i) == IF i <= Len(v) THEN v[i] ELSE 0

\* pywt.dwt of one vector with haar and zero extension: floor((n + 1) / 2)
\* sums and differences of pairs, before the division by sqrt(2)
HaarLo(v) == V([k \in 1..((Len(v) + 1) \div 2) |-> Pad(v, 2 * k - 1) + Pad(v, 2 * k)])

HaarHi(v) == V([k \in 1..((Len(v) + 1) \div 2) |-> Pad(v, 2 * k - 1) - Pad(v, 2 * k)])

\* pywt.idwt of one pair of vectors: twice as many values
IHaar(lo, hi) ==
    V([i \in 1..(2 * Len(lo)) |->
         IF i % 2 = 1 THEN lo[(i + 1) \div 2] + hi[(i + 1) \div 2]
         ELSE lo[i \div 2] - hi[i \div 2]])

MatScale(m, f) == V([i \in 1..Len(m) |-> V([j \in 1..Len(m[i]) |-> m[i][j] * f])])

\* pywt.dwt2 over axes (-2, -1): the first letter of a key is for axis -2
Dwt2(X) ==
    LET lo == AlongRows(HaarLo, X)
        hi == AlongRows(HaarHi, X)
    IN  [aa |-> AlongCols(HaarLo, lo), da |-> AlongCols(HaarHi, lo),
         ad |-> AlongCols(HaarLo, hi), dd |-> AlongCols(HaarHi, hi)]

\* pywt.idwt2 over axes (-2, -1)
Idwt2(aa, d) ==
    LET cols(A, D) == Transpose(V([i \in 1..Len(Transpose(A)) |->
                         IHaar(Transpose(A)[i], Transpose(D)[i])]))
        lo == cols(aa, d.da)
        hi == cols(d.ad, d.dd)
    IN  V([i \in 1..Len(lo) |-> IHaar(lo[i], hi[i])])

RECURSIVE Wavedec2(_, _, _)
\* pywt.wavedec2(X, level = L) from level j on: the approximation and the
\* details, coarsest first, all as numerators over 2^L
Wavedec2(X, j, L) ==
    IF j > L THEN [a |-> X, d |-> <<>>]
    ELSE LET c == Dwt2(X)
             rest == Wavedec2(c.aa, j + 1, L)
         IN  [a |-> rest.a,
              d |-> Append(rest.d,
                           [da |-> MatScale(c.da, Pow2(L - j)),
                            ad |-> MatScale(c.ad, Pow2(L - j)),
                            dd |-> MatScale(c.dd, Pow2(L - j))])]

\* the slices pywt.coeffs_to_array returns: <<r0, r1, c0, c1>> stands for
\* (slice(r0, r1), slice(c0, c1)); the details of one level lie beside and
\* below everything coarser
CoeffSlices(coeffs) ==
    LET rowOff(k) == Rows(coeffs.a)
                       + SumSeq(V([i \in 1..(k - 1) |-> Rows(coeffs.d[i].dd)]))
        colOff(k) == Cols(coeffs.a)
                       + SumSeq(V([i \in 1..(k - 1) |-> Cols(coeffs.d[i].dd)]))
    IN  [a |-> <<0, Rows(coeffs.a), 0, Cols(coeffs.a)>>,
         d |-> V([k \in 1..Len(coeffs.d) |->
                  [ad |-> <<0, Rows(coeffs.d[k].ad),
                            colOff(k), colOff(k) + Cols(coeffs.d[k].ad)>>,
                   da |-> <<rowOff(k), rowOff(k) + Rows(coeffs.d[k].da),
                            0, Cols(coeffs.d[k].da)>>,
                   dd |-> <<rowOff(k), rowOff(k) + Rows(coeffs.d[k].dd),
                            colOff(k), colOff(k) + Cols(coeffs.d[k].dd)>>]]),
         shape |-> <<rowOff(Len(coeffs.d) + 1), colOff(Len(coeffs.d) + 1)>>]

InSlice(sl, i, j) == sl[1] < i /\ i <= sl[2] /\ sl[3] < j /\ j <= sl[4]

\* the array pywt.coeffs_to_array returns: every coefficient at its slice,
\* zero elsewhere
CoeffsToArray(coeffs) ==
    LET sl == CoeffSlices(coeffs)
        entry(i, j) ==
            IF InSlice(sl.a, i, j) THEN coeffs.a[i][j]
            ELSE IF \E k \in 1..Len(sl.d) : InSlice(sl.d[k].ad, i, j)
            THEN LET k == CHOOSE k \in 1..Len(sl.d) : InSlice(sl.d[k].ad, i, j)
                 IN  coeffs.d[k].ad[i][j - sl.d[k].ad[3]]
            ELSE IF \E k \in 1..Len(sl.d) : InSlice(sl.d[k].da, i, j)
            THEN LET k == CHOOSE k \in 1..Len(sl.d) : InSlice(sl.d[k].da, i, j)
                 IN  coeffs.d[k].da[i - sl.d[k].da[1]][j]
            ELSE IF \E k \in 1..Len(sl.d) : InSlice(sl.d[k].dd, i, j)
            THEN LET k == CHOOSE k \in 1..Len(sl.d) : InSlice(sl.d[k].dd, i, j)
                 IN  coeffs.d[k].dd[i - sl.d[k].dd[1]][j - sl.d[k].dd[3]]
            ELSE 0
    IN  V([i \in 1..sl.shape[1] |-> V([j \in 1..sl.shape[2] |-> entry(i, j)])])

\* arr[slice(a, b)] along one axis: the indices a..b-1 that exist
Clip(a, b, len) == V([k \in 1..(Min(b, len) - Min(a, len)) |-> Min(a, len) + k])

\* arr[sl] for a 2D array: rows and columns are sliced
Block2(arr, sl) ==
    V([i \in 1..Len(Clip(sl[1], sl[2], Rows(arr))) |->
         V([j \in 1..Len(Clip(sl[3], sl[4], Cols(arr))) |->
              arr[Clip(sl[1], sl[2], Rows(arr))[i]]
                 [Clip(sl[3], sl[4], Cols(arr))[j]]])])

\* arr[sl] for a 3D array given as its planes: a tuple of two slices
\* slices the first two axes, that is the planes and their rows
Block3(planes, sl) ==
    V([o \in 1..Len(Clip(sl[1], sl[2], Len(planes))) |->
         LET pl == planes[Clip(sl[1], sl[2], Len(planes))[o]]
         IN  V([i \in 1..Len(Clip(sl[3], sl[4], Rows(pl))) |->
                  pl[Clip(sl[3], sl[4], Rows(pl))[i]]])])

\* the shape of a 3D array given as its planes
Shape3(planes) ==
    <<Len(planes),
      IF Len(planes) = 0 THEN 0 ELSE Rows(planes[1]),
      IF Len(planes) = 0 THEN 0 ELSE Cols(planes[1])>>

\* waverec2 trims the approximation where it is one longer than the details
TrimTo(a, d) ==
    LET r == IF Rows(a) = Rows(d) + 1 THEN Rows(a) - 1 ELSE Rows(a)
        c == IF Cols(a) = Cols(d) + 1 THEN Cols(a) - 1 ELSE Cols(a)
    IN  V([i \in 1..r |-> V([j \in 1..c |-> a[i][j]])])

RECURSIVE Waverec2(_, _, _)
\* pywt.waverec2 on arrays of one leading dimension: a the approximation
\* so far (numerators scaled by f), ds the details left, coarsest first.
\* The result is [st, val]: idwt2 raises ValueError unless all four
\* coefficient arrays have one shape
Waverec2(a, ds, f) ==
    IF ds = <<>> THEN Ret(a)
    ELSE LET d == Head(ds)
             t == IF Len(a) = 0 \/ Len(d.dd) = 0 THEN a
                  ELSE V([o \in 1..Len(a) |-> TrimTo(a[o], d.dd[1])])
         IN  IF ~(Shape3(d.da) = Shape3(d.ad) /\ Shape3(d.ad) = Shape3(d.dd)
                    /\ Shape3(t) = Shape3(d.dd))
                \/ Shape3(t)[1] * Shape3(t)[2] * Shape3(t)[3] = 0
             THEN Raise("ValueError")
             ELSE Waverec2(
                     V([o \in 1..Len(t) |->
                          Idwt2(t[o], [da |-> MatScale(d.da[o], f),
                                       ad |-> MatScale(d.ad[o], f),
                                       dd |-> MatScale(d.dd[o], f)])]),
                     Tail(ds), 2 * f)

\* the canonical form of a tensor: the common factors 2 of the numerators
\* are cancelled against den
RECURSIVE Canon2(_)
Canon2(t) ==
    IF t.den > 1 /\ \A p \in 1..Len(t.planes) : \A q \in 1..Len(im2vec(t.planes[p])) :
                        im2vec(t.planes[p])[q] % 2 = 0
    THEN Canon2([lead |-> t.lead, den |-> t.den \div 2,
                 planes |-> V([p \in 1..Len(t.planes) |->
                                 V([i \in 1..Len(t.planes[p]) |->
                                      V([j \in 1..Len(t.planes[p][i]) |->
                                           t.planes[p][i][j] \div 2])])])])
    ELSE t

(***************************************************************************)
(* Wavelet                                                                 *)
(***************************************************************************)
\* self.wavelet: pywt.wavedec2(x, "haar", mode="zero", level=self.level)
\* on one image
wavelet(X, level) == Wavedec2(X, 1, level)

\* get_slices(n, wavelet): the slices and the array shape for zeros(n)
get_slices(n, level) ==
    CoeffSlices(wavelet(V([i \in 1..n[1] |-> V([j \in 1..n[2] |-> 0])]), level))

\* wavelet_process_image on one plane of the array handed to pywt
wavelet_process_image(X, level) == CoeffsToArray(wavelet(X, level))

\* Wavelet.dot.  x.ndim == 3 hands the whole (C, H, W) array to pywt, which
\* transforms its last two axes.  Otherwise wavelet_process_batch: with
\* x.shape[1] == 1 every (1, H, W) item is transformed; else the channels
\* are unbound, every (H, W) item of each is transformed, and the results
\* are stacked back on dim 1.  im2vec then flattens the last two axes
WaveletDot(level, x) ==
    LET coef(p) == V([r \in 1..1 |->
                        im2vec(wavelet_process_image(x.planes[p], level))])
    IN  IF Len(x.lead) = 1
        THEN Ret(Canon2([lead |-> x.lead, den |-> x.den * Pow2(level),
                         planes |-> V([p \in 1..Len(x.planes) |-> coef(p)])]))
        ELSE IF x.lead[2] = 1
        THEN Ret(Canon2([lead |-> <<x.lead[1], 1>>,
                         den |-> x.den * Pow2(level),
                         planes |-> V([b \in 1..x.lead[1] |-> coef(b)])]))
        ELSE Ret(Canon2([lead |-> <<x.lead[1], x.lead[2]>>,
                         den |-> x.den * Pow2(level),
                         planes |-> V([p \in 1..(x.lead[1] * x.lead[2]) |->
                                         coef(p)])]))

\* inverse_process_image on a 2D array: array_to_coeffs with the cached
\* slices, then waverec2
inverse_process_image(Y, slices) ==
    LET r == Waverec2(<<Block2(Y, slices.a)>>,
                      V([k \in 1..Len(slices.d) |->
                           [da |-> <<Block2(Y, slices.d[k].da)>>,
                            ad |-> <<Block2(Y, slices.d[k].ad)>>,
                            dd |-> <<Block2(Y, slices.d[k].dd)>>]]), 1)
    IN  IF r.st = "ok" THEN Ret(r.val[1]) ELSE r

\* inverse_process_image on a 3D array: the 2D slices then cut its first
\* two axes, and waverec2 works on the last two axes of what they give
inverse_process_image3(planes, slices) ==
    Waverec2(Block3(planes, slices.a),
             V([k \in 1..Len(slices.d) |->
                  [da |-> Block3(planes, slices.d[k].da),
                   ad |-> Block3(planes, slices.d[k].ad),
                   dd |-> Block3(planes, slices.d[k].dd)]]), 1)

\* Wavelet.adj.  y has shape (C, m) or (B, C, m); vec2im needs m to be the
\* cached out_shape's size.  y.ndim == 2: squeeze(0) drops C = 1 and the
\* array goes to inverse_process_image.  Otherwise inverse_process_batch:
\* with y.shape[1] == 1 squeeze(1), invert every (oh, ow) item and stack on
\* dim 0; else unbind the channels, squeeze(1) each (which drops the row
\* axis when oh == 1), invert every item, stack on dim 0 and then on dim 1
WaveletAdj(level, slices, out_shape, y) ==
    LET ims == V([p \in 1..Len(y.planes) |-> vec2im(y.planes[p][1], out_shape)])
        inv == V([p \in 1..Len(y.planes) |->
                    inverse_process_image(ims[p], slices)])
        den == y.den * Pow2(level)
    IN  IF Len(y.planes[1][1]) # out_shape[1] * out_shape[2]
        THEN Raise("RuntimeError")
        ELSE IF Len(y.lead) = 1
        THEN IF y.lead[1] = 1
             THEN IF inv[1].st # "ok" THEN inv[1]
                  ELSE Ret(Canon2([lead |-> <<>>, den |-> den,
                                   planes |-> <<inv[1].val>>]))
             ELSE LET r == inverse_process_image3(ims, slices)
                  IN  IF r.st # "ok" THEN r
                      ELSE Ret(Canon2([lead |-> <<Len(r.val)>>, den |-> den,
                                       planes |-> r.val]))
        ELSE IF y.lead[2] = 1
        THEN IF \E p \in 1..Len(inv) : inv[p].st # "ok"
             THEN inv[CHOOSE p \in 1..Len(inv) : inv[p].st # "ok"]
             ELSE Ret(Canon2([lead |-> <<y.lead[1]>>, den |-> den,
                              planes |-> V([b \in 1..y.lead[1] |->
                                              inv[b].val])]))
        ELSE IF out_shape[1] = 1
        THEN Raise("IndexError")
        ELSE IF \E p \in 1..Len(inv) : inv[p].st # "ok"
             THEN inv[CHOOSE p \in 1..Len(inv) : inv[p].st # "ok"]
             ELSE Ret(Canon2([lead |-> <<y.lead[1], y.lead[2]>>, den |-> den,
                              planes |-> V([p \in 1..Len(inv) |->
                                              inv[p].val])]))

\* Wavelet.inv
WaveletInv(y) == Raise("NotImplementedError")

\* the tensor of leading dimensions lead and planes of the given shape that
\* is a at entry (i, j) of plane q and 0 elsewhere
ImpulseTensor(lead, shape, q, i, j, a) ==
    [lead |-> lead, den |-> 1,
     planes |-> V([p \in 1..Product(lead) |->
                     V([r \in 1..shape[1] |-> V([c \in 1..shape[2] |->
                          IF <<p, r, c>> = <<q, i, j>> THEN a ELSE 0])])])]

\* the layouts (C,) and (B, C) of the leading dimensions, C = 1 for real
\* and C = 2 for complex tensors
WvLayouts ==
    {<<C>> : C \in 1..2} \cup {<<B, C>> : B \in 1..MaxWvBatch, C \in 1..2}

\* the tensors of planes of one shape handed to Wavelet.  Unbatched real:
\* zero and every scaled unit impulse (the operator is linear, so these
\* span all of them).  Every other layout: zero and the scaled impulses at
\* the last component
WvTensors(shape) ==
    {ImpulseTensor(<<1>>, shape, 1, i, j, a) :
        i \in 1..shape[1], j \in 1..shape[2], a \in 0..MaxWvVal}
    \cup {ImpulseTensor(lead, shape, Product(lead), shape[1], shape[2], a) :
             lead \in WvLayouts, a \in 0..MaxWvVal}

\* Wavelet.__init__
WvConstructed ==
    /\ wvN \in (1..MaxWvDim) \X (1..MaxWvDim)
    /\ wvLevel \in 0..MaxLevel
    /\ wvSlices = get_slices(wvN, wvLevel)
    /\ wvOutShape = get_slices(wvN, wvLevel).shape
    /\ wvM = wvOutShape[1] * wvOutShape[2]
    /\ wvOrig = <<>>
    /\ wvCalls = <<>>
    /\ wvOuts = <<>>

\* a first call that also counts itself in the field m
WvStartCounting(call, arg, out) ==
    /\ wvOrig' = arg
    /\ wvCalls' = <<call>>
    /\ wvOuts' = <<out>>
    /\ wvM' = wvM + 1
    /\ UNCHANGED <<wvN, wvLevel, wvSlices, wvOutShape>>

WvStart(call, arg, out) ==
    /\ wvOrig' = arg
    /\ wvCalls' = <<call>>
    /\ wvOuts' = <<out>>
    /\ UNCHANGED <<wvN, wvLevel, wvSlices, wvOutShape, wvM>>

\* dot(x) on a new image of the domain's height and width
WvDotCall ==
    /\ wvCalls = <<>>
    /\ \E x \in WvTensors(wvN) : WvStart("dot", x, WaveletDot(wvLevel, x))

\* adj(y) on a new measurement, of length m or m + 1
WvAdjCall ==
    /\ wvCalls = <<>>
    /\ \E y \in WvTensors(<<1, wvM>>) \cup WvTensors(<<1, wvM + 1>>) :
           WvStart("adj", y, WaveletAdj(wvLevel, wvSlices, wvOutShape, y))

\* inv(y) on a new measurement
WvInvCall ==
    /\ wvCalls = <<>>
    /\ \E y \in WvTensors(<<1, wvM>>) : WvStart("inv", y, WaveletInv(y))

\* adj applied to the measurement the previous dot returned
WvAdjOfResult ==
    /\ wvCalls = <<"dot">>
    /\ wvOuts[1].st = "ok"
    /\ wvCalls' = Append(wvCalls, "adj")
    /\ wvOuts' = Append(wvOuts, WaveletAdj(wvLevel, wvSlices, wvOutShape,
                                            wvOuts[1].val))
    /\ UNCHANGED <<wvN, wvLevel, wvSlices, wvOutShape, wvM, wvOrig>>

\* the caller drops the results; the operator stays
WvDiscard ==
    /\ wvCalls # <<>>
    /\ wvOrig' = <<>>
    /\ wvCalls' = <<>>
    /\ wvOuts' = <<>>
    /\ UNCHANGED <<wvN, wvLevel, wvSlices, wvOutShape, wvM>>

(***************************************************************************)
(* Radon                                                                   *)
(*                                                                         *)
(* pytorch_radon interpolates on rotated grids; its values are not         *)
(* modelled.  A tensor is [shape, data], data a term naming how it was     *)
(* computed: <<"radon", d>> for pytorch_radon.Radon, <<"iradon", f, d>>    *)
(* for pytorch_radon.IRadon with filter f, <<"div", d, c>> for d / c.     *)
(***************************************************************************)
\* the detector bins of pytorch_radon.Radon with circle = False: the image
\* is padded to n + ceil(sqrt(2) * n - n), the least k with k^2 >= 2 n^2
RadonBins(n) == CHOOSE k \in n..(2 * n) :
                    k * k >= 2 * n * n /\ (k - 1) * (k - 1) < 2 * n * n

\* the shape of self.radon(x) for x of shape (B, C, n, n)
RadonOutShape(shape, angles) ==
    <<shape[1], shape[2], RadonBins(shape[3]), angles>>

\* a constructor without the assertion on n
RadonInitUnchecked(n, angles) ==
    LET dummy_out == RadonOutShape(<<1, 1, n[1], n[2]>>, angles)
        m_shape == SubSeq(dummy_out, 3, 4)
    IN  Ret([n |-> n, m_shape |-> m_shape,
             adj_factor |-> <<"pi/", 2 * angles>>,
             m |-> Product(m_shape)])

\* Radon.__init__
RadonInit(n, angles) ==
    IF n[1] # n[2] THEN Raise("AssertionError")
    ELSE LET dummy_out == RadonOutShape(<<1, 1, n[1], n[2]>>, angles)
             m_shape == SubSeq(dummy_out, 3, 4)
         IN  Ret([n |-> n, m_shape |-> m_shape,
                  adj_factor |-> <<"pi/", 2 * angles>>,
                  m |-> Product(m_shape)])

\* x.unsqueeze(0)
unsqueeze0(shape) == <<1>> \o shape

\* x.squeeze(0)
squeeze0(shape) == IF shape[1] = 1 THEN Tail(shape) ELSE shape

\* the shape im2vec gives: the last two dimensions are flattened
im2vecShape(shape) ==
    SubSeq(shape, 1, Len(shape) - 2)
        \o <<shape[Len(shape) - 1] * shape[Len(shape)]>>

\* the shape vec2im gives: the last dimension is viewed as dims
vec2imShape(shape, dims) == SubSeq(shape, 1, Len(shape) - 1) \o dims

\* Radon.dot
RadonDot(self, x) ==
    IF Len(x.shape) = 3
    THEN Ret([shape |-> im2vecShape(squeeze0(
                            RadonOutShape(unsqueeze0(x.shape), self.m_shape[2]))),
              data |-> <<"radon", x.data>>])
    ELSE Ret([shape |-> im2vecShape(RadonOutShape(x.shape, self.m_shape[2])),
              data |-> <<"radon", x.data>>])

\* the shape of IRadon(in_size = n)(y) for y of shape (B, C, bins, angles)
IRadonOutShape(shape, n) == <<shape[1], shape[2], n[1], n[2]>>

\* Radon.adj: vec2im is a view, which needs the last dimension to be m
RadonAdj(self, y) ==
    IF y.shape[Len(y.shape)] # Product(self.m_shape) THEN Raise("RuntimeError")
    ELSE IF Len(y.shape) = 2
    THEN Ret([shape |-> squeeze0(IRadonOutShape(
                            unsqueeze0(vec2imShape(y.shape, self.m_shape)), self.n)),
              data |-> <<"div", <<"iradon", "none", y.data>>, self.adj_factor>>])
    ELSE Ret([shape |-> IRadonOutShape(vec2imShape(y.shape, self.m_shape), self.n),
              data |-> <<"div", <<"iradon", "none", y.data>>, self.adj_factor>>])

\* Radon.inv
RadonInv(self, y) ==
    IF y.shape[Len(y.shape)] # Product(self.m_shape) THEN Raise("RuntimeError")
    ELSE IF Len(y.shape) = 2
    THEN Ret([shape |-> squeeze0(IRadonOutShape(
                            unsqueeze0(vec2imShape(y.shape, self.m_shape)), self.n)),
              data |-> <<"iradon", "hann", y.data>>])
    ELSE Ret([shape |-> IRadonOutShape(vec2imShape(y.shape, self.m_shape), self.n),
              data |-> <<"iradon", "hann", y.data>>])

\* the leading dimensions (C,) and (B, C) of the tensors handed to Radon
\* and to the CG layer
Layouts == {<<C>> : C \in 1..2} \cup {<<B, C>> : B \in 1..MaxBatch, C \in 1..2}

\* Radon.__init__ has run
RdConstructed ==
    /\ rdArgs \in [n : (1..MaxRdDim) \X (1..MaxRdDim), angles : 1..MaxAngles]
    /\ rdSelf = RadonInit(rdArgs.n, rdArgs.angles)
    /\ rdOrig = <<>>
    /\ rdCalls = <<>>
    /\ rdOuts = <<>>

RdStart(call, arg, out) ==
    /\ rdSelf.st = "ok"
    /\ rdCalls = <<>>
    /\ rdOrig' = arg
    /\ rdCalls' = <<call>>
    /\ rdOuts' = <<out>>
    /\ UNCHANGED <<rdArgs, rdSelf>>

\* dot(x) on a new image of the domain's height and width
RdDotCall ==
    \E lead \in Layouts :
        LET x == [shape |-> lead \o rdArgs.n, data |-> "x"]
        IN  RdStart("dot", x, RadonDot(rdSelf.val, x))

\* adj(y) on a new measurement of length m or m + 1
RdAdjCall ==
    \E lead \in Layouts, extra \in 0..1 :
        LET y == [shape |-> lead \o <<rdSelf.val.m + extra>>, data |-> "y"]
        IN  RdStart("adj", y, RadonAdj(rdSelf.val, y))

\* inv(y) on a new measurement of length m or m + 1
RdInvCall ==
    \E lead \in Layouts, extra \in 0..1 :
        LET y == [shape |-> lead \o <<rdSelf.val.m + extra>>, data |-> "y"]
        IN  RdStart("inv", y, RadonInv(rdSelf.val, y))

\* adj applied to the measurement the previous dot returned
RdAdjOfResult ==
    /\ rdCalls = <<"dot">>
    /\ rdOuts[1].st = "ok"
    /\ rdCalls' = Append(rdCalls, "adj")
    /\ rdOuts' = Append(rdOuts, RadonAdj(rdSelf.val, rdOuts[1].val))
    /\ UNCHANGED <<rdArgs, rdSelf, rdOrig>>

\* the caller drops the results; the operator stays
RdDiscard ==
    /\ rdCalls # <<>>
    /\ rdOrig' = <<>>
    /\ rdCalls' = <<>>
    /\ rdOuts' = <<>>
    /\ UNCHANGED <<rdArgs, rdSelf>>

(***************************************************************************)
(* CGInverterLayer                                                         *)
(*                                                                         *)
(* torch_cg.cg_batch is iterative floating-point code outside the          *)
(* repository; its values are not modelled.  A tensor is [shape, data,     *)
(* requires_grad], data a term naming how it was computed:                 *)
(* <<"cg_batch", rhs, M, X0, rtol, atol, maxiter>> for the iterate of a    *)
(* solve and <<"mul", c, d>> for c * d.                                    *)
(***************************************************************************)
None == [shape |-> <<>>, data |-> "None", requires_grad |-> FALSE]

\* _CGInverterFunc(A_bmm, M_bmm, rtol=1e-5, atol=0.0, maxiter=None,
\* verbose=False) with the keyword arguments kwargs of the layer
CGInverterFunc(M_bmm, kwargs) ==
    [M_bmm |-> M_bmm,
     rtol |-> IF "rtol" \in DOMAIN kwargs THEN kwargs.rtol ELSE "1e-5",
     atol |-> IF "atol" \in DOMAIN kwargs THEN kwargs.atol ELSE "0.0",
     maxiter |-> IF "maxiter" \in DOMAIN kwargs THEN kwargs.maxiter ELSE "None",
     verbose |-> IF "verbose" \in DOMAIN kwargs THEN kwargs.verbose ELSE FALSE]

\* torch.flatten(T, -3, -1).unsqueeze(-1)
flattenShape(shape) ==
    SubSeq(shape, 1, Len(shape) - 3)
        \o <<shape[Len(shape) - 2] * shape[Len(shape) - 1] * shape[Len(shape)], 1>>

\* the iterate torch_cg.cg_batch returns for the right-hand side B
cg_batch(B_data, M_bmm, X0_data, rtol, atol, maxiter) ==
    <<"cg_batch", B_data, M_bmm, X0_data, rtol, atol, maxiter>>

\* the info torch_cg.cg_batch returns beside the iterate of that solve: the
\* number of iterations made and whether the tolerance was met
cg_batch_info(B_data, M_bmm, X0_data, rtol, atol, maxiter) ==
    <<"info", B_data, M_bmm, X0_data, rtol, atol, maxiter>>

\* _CGInverter.forward: [out, in_grads, log, unused]; unused is the info of
\* the solve, which forward binds to _ and does not return
CGForward(opts, B, X0) ==
    LET B_flat == [shape |-> flattenShape(B.shape), data |-> B.data]
        X0_flat == IF X0 # None
                   THEN [shape |-> flattenShape(X0.shape), data |-> X0.data]
                   ELSE X0
        X == cg_batch(B_flat.data, opts.M_bmm, X0_flat.data,
                      opts.rtol, opts.atol, opts.maxiter)
    IN  [in_grads |-> <<B # None /\ B.requires_grad,
                        X0 # None /\ X0.requires_grad>>,
         log |-> <<X>>,
         unused |-> cg_batch_info(B_flat.data, opts.M_bmm, X0_flat.data,
                                  opts.rtol, opts.atol, opts.maxiter),
         out |-> Ret([shape |-> B.shape, data |-> X,
                      requires_grad |-> B.requires_grad \/ X0.requires_grad])]

\* a backward that solves with the defaults of torch_cg.cg_batch instead of
\* the options of the layer
CGBackwardDefaults(opts, in_grads, dX) ==
    LET dB == cg_batch(dX.data, "None", None.data, "1e-3", "0.0", "None")
        zero == <<"mul", "0.0", dX.data>>
        grads == <<[shape |-> dX.shape, data |-> dB, requires_grad |-> FALSE],
                   [shape |-> dX.shape, data |-> zero, requires_grad |-> FALSE]>>
    IN  [log |-> <<dB, zero>>,
         out |-> Ret(V([i \in 1..Len(grads) |->
                          IF ~in_grads[i] THEN None ELSE grads[i]]))]

\* _CGInverter.backward: [out, log], out the tuple of gradients
CGBackward(opts, in_grads, dX) ==
    LET dX_flat == [shape |-> flattenShape(dX.shape), data |-> dX.data]
        dB == cg_batch(dX_flat.data, opts.M_bmm, None.data,
                       opts.rtol, opts.atol, opts.maxiter)
        zero == <<"mul", "0.0", dX.data>>
        grads == <<[shape |-> dX.shape, data |-> dB, requires_grad |-> FALSE],
                   [shape |-> dX.shape, data |-> zero, requires_grad |-> FALSE]>>
    IN  [log |-> <<dB, zero>>,
         out |-> Ret(V([i \in 1..Len(grads) |->
                          IF ~in_grads[i] THEN None ELSE grads[i]]))]

\* the keyword arguments a caller gives to CGInverterLayer
CGKwargs ==
    {<<>>} \cup {[rtol |-> "1e-3"]} \cup {[maxiter |-> "10"]}
    \cup {[rtol |-> "1e-3", maxiter |-> "10"]}

\* right-hand sides of shape (B, C, n1, n2)
CGShapes ==
    {<<b, C, h, w>> : b \in 1..MaxBatch, C \in 1..2,
                      h \in 1..MaxCGDim, w \in 1..MaxCGDim}

\* CGInverterLayer.__init__
CGConstructed ==
    /\ cgOpts \in {CGInverterFunc(M, kw) : M \in {"None", "M_bmm"}, kw \in CGKwargs}
    /\ cgIn = <<>>
    /\ cgCtx = <<>>
    /\ cgFwd = NotCalled
    /\ cgDX = <<>>
    /\ cgBwd = NotCalled
    /\ cgLog = <<>>

\* CGInverterLayer.forward(B, X0): X0 is None or a tensor of B's shape
CGForwardCall ==
    /\ cgFwd.st = "none"
    /\ \E shape \in CGShapes, bg \in BOOLEAN, x0 \in {"None", "leaf", "grad"} :
         LET B == [shape |-> shape, data |-> "B", requires_grad |-> bg]
             X0 == IF x0 = "None" THEN None
                   ELSE [shape |-> shape, data |-> "X0",
                         requires_grad |-> (x0 = "grad")]
             r == CGForward(cgOpts, B, X0)
         IN  /\ cgIn' = <<B, X0>>
             /\ cgCtx' = r.in_grads
             /\ cgFwd' = r.out
             /\ cgLog' = cgLog \o r.log
             /\ UNCHANGED <<cgOpts, cgDX, cgBwd>>

\* autograd calls backward with the gradient of the output, when the
\* output requires gradients
CGBackwardCall ==
    /\ cgFwd.st = "ok"
    /\ cgFwd.val.requires_grad
    /\ cgBwd.st = "none"
    /\ LET dX == [shape |-> cgFwd.val.shape, data |-> "dX",
                  requires_grad |-> FALSE]
           r == CGBackward(cgOpts, cgCtx, dX)
       IN  /\ cgDX' = dX
           /\ cgBwd' = r.out
           /\ cgLog' = cgLog \o r.log
           /\ UNCHANGED <<cgOpts, cgIn, cgCtx, cgFwd>>

\* the caller drops the results; the layer stays
CGDiscard ==
    /\ cgFwd.st # "none"
    /\ cgIn' = <<>>
    /\ cgCtx' = <<>>
    /\ cgFwd' = NotCalled
    /\ cgDX' = <<>>
    /\ cgBwd' = NotCalled
    /\ cgLog' = <<>>
    /\ UNCHANGED cgOpts

(***************************************************************************)
(* The grid search scripts: script_grid_search_l1_fourier.py ("l1_fourier")*)
(* and script_grid_search_l1_wavelet.py ("l1_wavelet")                     *)
(***************************************************************************)
Scripts == {"l1_fourier", "l1_wavelet"}

\* np.logspace(a, b, num): entry k (from 0) is 10^(a + (b - a) * k / (num - 1)),
\* kept as <<"10^", p, q>> for the exponent p / q
Logspace(a, b, num) ==
    V([k \in 1..num |-> <<"10^", a * (num - 1) + (b - a) * (k - 1), num - 1>>])

grid_size(script) == IF script = "l1_fourier" THEN 2 ELSE 10

\* a grid whose two axes changed places
gridSwapped(script) ==
    IF script = "l1_fourier"
    THEN [lam |-> Logspace(-5, 1, grid_size(script)),
          rho |-> Logspace(-6, -1, grid_size(script))]
    ELSE [lam |-> Logspace(-1, 3, grid_size(script)),
          rho |-> Logspace(-2, 2, grid_size(script))]

\* the parameter search grid of the script
grid(script) ==
    IF script = "l1_fourier"
    THEN [lam |-> Logspace(-6, -1, grid_size(script)),
          rho |-> Logspace(-5, 1, grid_size(script))]
    ELSE [lam |-> Logspace(-2, 2, grid_size(script)),
          rho |-> Logspace(-1, 3, grid_size(script))]

\* a warm start whose two parts are handed over in the wrong places
warm_start_swapped(script, y) ==
    [x_init |-> <<"dot", IF script = "l1_fourier" THEN "OpTV" ELSE "OpW",
                  <<"adj", "OpA", y>>>>,
     w_init |-> <<"adj", "OpA", y>>]

\* the warm start _reconstruct builds: OpA.adj(y), and OpTV(OpA.adj(y)) in
\* the Fourier script, OpW.dot(OpA.adj(y)) in the wavelet script
warm_start(script, y) ==
    [x_init |-> <<"adj", "OpA", y>>,
     w_init |-> <<"dot", IF script = "l1_fourier" THEN "OpTV" ELSE "OpW",
                  <<"adj", "OpA", y>>>>]

\* a _reconstruct that hands the iteration budget of the Fourier script to
\* the ADMM of the wavelet script as well
reconstructSameBudget(script, y, lam, rho) ==
    [method |-> IF script = "l1_fourier" THEN "admm_l1_rec_diag" ELSE "admm_l1_rec",
     y |-> y,
     OpA |-> "OpA",
     OpW |-> IF script = "l1_fourier" THEN "OpTV" ELSE "OpW",
     x_init |-> warm_start(script, y).x_init,
     w_init |-> warm_start(script, y).w_init,
     lam |-> lam,
     rho |-> rho,
     iter |-> 1000,
     silent |-> (script = "l1_fourier")]

\* _reconstruct(y, lam, rho): the arguments it hands to admm_l1_rec_diag
\* (Fourier script) or admm_l1_rec (wavelet script)
reconstruct(script, y, lam, rho) ==
    [method |-> IF script = "l1_fourier" THEN "admm_l1_rec_diag" ELSE "admm_l1_rec",
     y |-> y,
     OpA |-> "OpA",
     OpW |-> IF script = "l1_fourier" THEN "OpTV" ELSE "OpW",
     x_init |-> warm_start(script, y).x_init,
     w_init |-> warm_start(script, y).w_init,
     lam |-> lam,
     rho |-> rho,
     iter |-> IF script = "l1_fourier" THEN 1000 ELSE 10,
     silent |-> (script = "l1_fourier")]

(***************************************************************************)
(* The iterative engines: an ADMM reconstruction started by _reconstruct   *)
(* and a conjugate gradient solve started by the CG layer.  The loops      *)
(* themselves (reconstruction_methods.admm_l1_rec, admm_l1_rec_diag and    *)
(* torch_cg.cg_batch) are not part of src/; they follow the description of *)
(* the engine: Init -> Iterate -> Converged | IterationBudgetExhausted.     *)
(* An iterate is kept as the record of what it was computed from.          *)
(***************************************************************************)
\* the iteration that produced the iterate v; 0 for the warm start
It(v) == IF v[1] = "init" THEN 0 ELSE v[2]

\* x-update of iteration k: the least squares solve with the current z, u
XUpdate(k, z, u) == <<"x", k, It(z), It(u)>>

\* z-update of iteration k: shrink(W x + u, lam / rho)
ZUpdate(k, x, u, lam, rho) == <<"z", k, It(x), It(u), <<lam, "/", rho>>>>

\* dual update of iteration k: u + W x - z
UUpdate(k, u, x, z) == <<"u", k, It(u), It(x), It(z)>>

\* torch_cg.cg_batch: maxiter=None stands for 5 * n, n the system size
CGMaxIter(maxiter, n) == IF maxiter = "None" THEN 5 * n ELSE 10

EnDone == enState \in {"Converged", "IterationBudgetExhausted"}

EnRunning == enState \in {"Init", "Iterate"}

\* no engine was started
EnAbsent ==
    /\ enCall = <<>>
    /\ enArgs = <<>>
    /\ enState = "Idle"
    /\ enK = 0
    /\ enPhase = "x"
    /\ enX = <<"none">>
    /\ enZ = <<"none">>
    /\ enU = <<"none">>
    /\ enOut = NotCalled

\* grid_search calls _reconstruct(y, lam, rho) at a grid point: the ADMM
\* starts from the warm start
EnReconstructCall ==
    /\ enState = "Idle"
    /\ \E script \in Scripts :
         \E i \in 1..grid_size(script), j \in 1..grid_size(script) :
           LET lam == grid(script).lam[i]
               rho == grid(script).rho[j]
               args == reconstruct(script, "Y_ref", lam, rho)
           IN  /\ enCall' = <<"_reconstruct", script, lam, rho>>
               /\ enArgs' = args
               /\ enState' = "Init"
               /\ enK' = 0
               /\ enPhase' = "x"
               /\ enX' = <<"init", args.x_init>>
               /\ enZ' = <<"init", args.w_init>>
               /\ enU' = <<"init", "zeros">>
               /\ enOut' = NotCalled

\* _CGInverter.forward hands its system to torch_cg.cg_batch
EnCGSolveCall ==
    /\ enState = "Idle"
    /\ \E M \in {"None", "M_bmm"}, kw \in CGKwargs, shape \in CGShapes :
         LET opts == CGInverterFunc(M, kw)
             B == [shape |-> shape, data |-> "B", requires_grad |-> FALSE]
             solve == CGForward(opts, B, None).log[1]
             n == flattenShape(shape)[2]
         IN  /\ enCall' = <<"cg_batch", opts.maxiter, n>>
             /\ enArgs' = [method |-> "cg_batch", solve |-> solve, n |-> n,
                           iter |-> CGMaxIter(solve[7], n)]
             /\ enState' = "Init"
             /\ enK' = 0
             /\ enPhase' = "x"
             /\ enX' = <<"init", solve[4]>>
             /\ enZ' = <<"none">>
             /\ enU' = <<"none">>
             /\ enOut' = NotCalled

\* one conjugate gradient iteration
EnCGStep ==
    /\ EnRunning
    /\ enArgs.method = "cg_batch"
    /\ enK < enArgs.iter
    /\ enState' = "Iterate"
    /\ enX' = <<"x", enK + 1, It(enX), 0>>
    /\ enK' = enK + 1
    /\ UNCHANGED <<enCall, enArgs, enPhase, enZ, enU, enOut>>

\* first step of an ADMM iteration
EnXUpdate ==
    /\ EnRunning
    /\ enArgs.method # "cg_batch"
    /\ enPhase = "x"
    /\ enK < enArgs.iter
    /\ enState' = "Iterate"
    /\ enX' = XUpdate(enK + 1, enZ, enU)
    /\ enPhase' = "z"
    /\ UNCHANGED <<enCall, enArgs, enK, enZ, enU, enOut>>

\* second step of an ADMM iteration
EnZUpdate ==
    /\ EnRunning
    /\ enPhase = "z"
    /\ enZ' = ZUpdate(enK + 1, enX, enU, enArgs.lam, enArgs.rho)
    /\ enPhase' = "u"
    /\ UNCHANGED <<enCall, enArgs, enState, enK, enX, enU, enOut>>

\* third step of an ADMM iteration, which completes it
EnUUpdate ==
    /\ EnRunning
    /\ enPhase = "u"
    /\ enU' = UUpdate(enK + 1, enU, enX, enZ)
    /\ enPhase' = "x"
    /\ enK' = enK + 1
    /\ UNCHANGED <<enCall, enArgs, enState, enX, enZ, enOut>>

\* the residual is under the tolerance after a completed iteration: the
\* loop ends and returns the iterate
EnConverge ==
    /\ enState = "Iterate"
    /\ enPhase = "x"
    /\ enState' = "Converged"
    /\ enOut' = Ret([x |-> enX, niter |-> enK])
    /\ UNCHANGED <<enCall, enArgs, enK, enPhase, enX, enZ, enU>>

\* the iteration cap is reached: the loop ends and returns the iterate
EnExhaust ==
    /\ EnRunning
    /\ enPhase = "x"
    /\ enK >= enArgs.iter
    /\ enState' = "IterationBudgetExhausted"
    /\ enOut' = Ret([x |-> enX, niter |-> enK])
    /\ UNCHANGED <<enCall, enArgs, enK, enPhase, enX, enZ, enU>>

\* the caller takes the result; the engine is free for the next run
EnDiscard ==
    /\ EnDone
    /\ enCall' = <<>>
    /\ enArgs' = <<>>
    /\ enState' = "Idle"
    /\ enK' = 0
    /\ enPhase' = "x"
    /\ enX' = <<"none">>
    /\ enZ' = <<"none">>
    /\ enU' = <<"none">>
    /\ enOut' = NotCalled

(***************************************************************************)
(* Thresholding: shrink                                                    *)
(***************************************************************************)
\* a hard threshold: entries over the threshold are kept as they are
HardshrinkEl(lambd, v) ==
    IF v > lambd THEN v
    ELSE IF v < -lambd THEN v
    ELSE 0

\* torch.nn.Softshrink(lambd) on one entry
SoftshrinkEl(lambd, v) ==
    IF v > lambd THEN v - lambd
    ELSE IF v < -lambd THEN v + lambd
    ELSE 0

\* torch.nn.Softshrink(lambd)(x); a negative lambd is refused
Softshrink(lambd, x) ==
    IF lambd < 0 THEN Raise("RuntimeError")
    ELSE Ret(V([i \in 1..Len(x) |-> SoftshrinkEl(lambd, x[i])]))

\* _shrink_single(x, thresh), also known as shrink
shrink_single(x, thresh) == Softshrink(thresh, x)

\* _shrink_recursive(c, thresh) for c = <<"tensor", x>> or
\* c = <<"list", <<c1, ..., ck>>>>: the list of the results, or the first
\* exception raised
RECURSIVE shrink_recursive(_, _)
shrink_recursive(c, thresh) ==
    IF c[1] = "list"
    THEN LET rs == V([i \in 1..Len(c[2]) |-> shrink_recursive(c[2][i], thresh)])
             bad == {i \in 1..Len(rs) : rs[i].st # "ok"}
         IN  IF bad # {}
             THEN rs[CHOOSE i \in bad : \A j \in bad : i <= j]
             ELSE Ret(<<"list", V([i \in 1..Len(rs) |-> rs[i].val])>>)
    ELSE LET r == shrink_single(c[2], thresh)
         IN  IF r.st = "ok" THEN Ret(<<"tensor", r.val>>) ELSE r

\* tensors of 1..MaxShLen entries in -MaxShVal..MaxShVal
ShTensors ==
    UNION {[1..len -> -MaxShVal..MaxShVal] : len \in 1..MaxShLen}

\* thresholds, one of them negative
ShThresholds == -1..MaxShThresh

\* shrink was not called
ShAbsent ==
    /\ shC = <<>>
    /\ shThresh = 0
    /\ shOut = NotCalled

\* shrink(x, thresh) on a tensor
ShrinkCall ==
    /\ shOut.st = "none"
    /\ \E x \in ShTensors, thresh \in ShThresholds :
         /\ shC' = <<"tensor", x>>
         /\ shThresh' = thresh
         /\ shOut' = LET r == shrink_single(x, thresh)
                     IN  IF r.st = "ok" THEN Ret(<<"tensor", r.val>>) ELSE r

\* _shrink_recursive(c, thresh) on a list of a tensor and a list of a tensor
ShrinkRecursiveCall ==
    /\ shOut.st = "none"
    /\ \E x \in [1..1 -> -MaxShVal..MaxShVal], y \in [1..1 -> -MaxShVal..MaxShVal],
          thresh \in ShThresholds :
         LET c == <<"list", <<<<"tensor", x>>, <<"list", <<<<"tensor", y>>>>>>>>>>
         IN  /\ shC' = c
             /\ shThresh' = thresh
             /\ shOut' = shrink_recursive(c, thresh)

\* the caller drops the result
ShDiscard ==
    /\ shOut.st # "none"
    /\ shC' = <<>>
    /\ shThresh' = 0
    /\ shOut' = NotCalled

(***************************************************************************)
(* The grid search of script_grid_search_l1_fourier.py.  grid_search       *)
(* itself (reconstruction_methods) is not part of src/; it follows its     *)
(* description: one reconstruction per grid point, in the enumeration      *)
(* order of the grid, and the first point of minimal error wins.           *)
(***************************************************************************)
\* noise_rel of the script: 0, the noise_steps = 2 levels from noise_min
\* to noise_max, and 0.16
noise_rel == <<"0.00", "1e-3", "0.08", "0.16">>

\* the grid points in enumeration order: lam outermost, rho innermost
GridPoints(g) ==
    V([k \in 1..(Len(g.lam) * Len(g.rho)) |->
          [lam |-> g.lam[((k - 1) \div Len(g.rho)) + 1],
           rho |-> g.rho[((k - 1) % Len(g.rho)) + 1]]])

\* no grid search was started
GsAbsent ==
    /\ gsIdx = 0
    /\ gsRuns = <<>>
    /\ gsErr = <<>>
    /\ gsBest = 0
    /\ gsOut = NotCalled

\* the script starts its main loop: idx is the first noise level
GsStarted ==
    /\ gsIdx = 1
    /\ gsRuns = <<>>
    /\ gsErr = <<>>
    /\ gsBest = 0
    /\ gsOut = NotCalled

\* the main loop calls grid_search(X_0, Y_ref, _reconstruct, grid) at noise
\* level idx, which evaluates the next grid point: it runs _reconstruct there
\* and computes the mean error e of the reconstruction; a strictly smaller
\* error than the smallest so far makes this point the best
GsEvaluate ==
    /\ gsIdx \in 1..Len(noise_rel)
    /\ gsOut.st = "none"
    /\ Len(gsRuns) < Len(GridPoints(grid("l1_fourier")))
    /\ LET p == GridPoints(grid("l1_fourier"))[Len(gsRuns) + 1]
           run == reconstruct("l1_fourier", <<"Y_ref", noise_rel[gsIdx]>>, p.lam, p.rho)
       IN  \E e \in 0..MaxErr :
             /\ gsRuns' = Append(gsRuns, run)
             /\ gsErr' = Append(gsErr, e)
             /\ gsBest' = IF gsBest = 0 \/ e < gsErr[gsBest]
                          THEN Len(gsRuns) + 1
                          ELSE gsBest
             /\ UNCHANGED <<gsIdx, gsOut>>

\* every grid point was evaluated: grid_search returns
\* (grid_param, err_min, err)
GsReturn ==
    /\ gsIdx > 0
    /\ gsOut.st = "none"
    /\ Len(gsRuns) = Len(GridPoints(grid("l1_fourier")))
    /\ gsOut' = Ret([grid_param |-> [lam |-> gsRuns[gsBest].lam,
                                     rho |-> gsRuns[gsBest].rho],
                     err_min |-> gsErr[gsBest],
                     err |-> gsErr])
    /\ UNCHANGED <<gsIdx, gsRuns, gsErr, gsBest>>

\* the main loop stores the results of this noise level and goes on to
\* the next
GsSave ==
    /\ gsOut.st = "ok"
    /\ gsIdx' = gsIdx + 1
    /\ gsRuns' = <<>>
    /\ gsErr' = <<>>
    /\ gsBest' = 0
    /\ gsOut' = NotCalled

(***************************************************************************)
(* The closed-form solve of the Fourier script: Fourier.tikh with the      *)
(* kernel of TVAnalysisPeriodic.get_fourier_kernel                         *)
(***************************************************************************)
\* the values get_fourier_kernel returns: the unnormalized 2D DFT
\* (torch.fft) of the kernel, shifted along both axes so that the zero
\* frequency sits at index n \div 2
TVKernelFourier(n) ==
    LET K == V([i \in 1..n[1] |-> V([j \in 1..n[2] |->
                  <<TVKernelSpatial(n)[i][j], 0>>])])
        dft(v) == DFT1(v, FALSE)
        shift(v) == fftshift(v)
    IN  AlongCols(shift, AlongRows(shift, AlongCols(dft, AlongRows(dft, K))))

\* sides on which the DFT has Gaussian integer values
TkDims == {1, 2, 4}

\* masks of the domain n: full, empty, one frequency sampled, one
\* frequency left out
TkMasks(n) ==
    {V([i \in 1..n[1] |-> V([j \in 1..n[2] |->
         IF <<i, j>> = p THEN b ELSE ~b])]) :
        p \in (0..n[1]) \X (0..n[2]), b \in BOOLEAN}

\* combined_kernel of tikh: mask + rho * kernel, as complex numbers
combined_kernel(mask, kernel, rho) ==
    V([i \in 1..Len(mask) |-> V([j \in 1..Len(mask[i]) |->
        <<(IF mask[i][j] THEN 1 ELSE 0) + rho * kernel[i][j][1],
          rho * kernel[i][j][2]>>])])

\* Fourier.tikh on a complex image rhs, its values left symbolic: finite
\* tells whether div_complex divided by a nonzero denom at every frequency
FourierTikhSolve(mask, rhs, kernel, rho) ==
    LET denom == TikhDenoms(mask, kernel, rho)
    IN  Ret([finite |-> \A i \in 1..Len(denom) :
                          \A j \in 1..Len(denom[i]) : denom[i][j] # 0,
             divisor |-> combined_kernel(mask, kernel, rho),
             data |-> <<"ifft2", <<"div_complex", <<"fft2", rhs>>>>>>])

\* no closed-form solve was set up
TkAbsent ==
    /\ tkN = <<0, 0>>
    /\ tkMask = <<>>
    /\ tkKernel = NotCalled
    /\ tkRho = 0
    /\ tkOut = NotCalled

\* OpA = Fourier(mask) and OpTV = TVAnalysisPeriodic(n) are constructed
TkConstructed ==
    /\ tkN \in TkDims \X TkDims
    /\ tkMask \in TkMasks(tkN)
    /\ tkKernel = NotCalled
    /\ tkRho = 0
    /\ tkOut = NotCalled

\* OpTV.get_fourier_kernel()
TkKernelCall ==
    /\ tkKernel.st = "none"
    /\ tkKernel' = IF get_fourier_kernel(tkN).st = "ok"
                   THEN Ret(TVKernelFourier(tkN))
                   ELSE get_fourier_kernel(tkN)
    /\ UNCHANGED <<tkN, tkMask, tkRho, tkOut>>

\* OpA.tikh(rhs, kernel, rho) with that kernel
TkTikhCall ==
    /\ tkKernel.st = "ok"
    /\ tkOut.st = "none"
    /\ \E rho \in 1..MaxTkRho :
         /\ tkRho' = rho
         /\ tkOut' = FourierTikhSolve(tkMask, "rhs", tkKernel.val, rho)
    /\ UNCHANGED <<tkN, tkMask, tkKernel>>

\* the caller drops the solution; operators and kernel stay
TkDiscard ==
    /\ tkOut.st # "none"
    /\ tkRho' = 0
    /\ tkOut' = NotCalled
    /\ UNCHANGED <<tkN, tkMask, tkKernel>>

(***************************************************************************)
(* RadialMaskFunc: the golden angle radial mask                            *)
(***************************************************************************)
\* math.ceil(np.sqrt(2) * m) for an integer m >= 0
CeilSqrt2Times(m) ==
    CHOOSE d \in 0..(2 * m) :
        /\ d * d >= 2 * m * m
        /\ d = 0 \/ (d - 1) * (d - 1) < 2 * m * m

\* the positions (from 0) a[start:stop] selects on an axis of length
\* size: a negative bound counts from the end, a bound beyond the axis
\* is clipped
PySlice(size, start, stop) ==
    LET clip(k) == IF k < 0 THEN Max(k + size, 0) ELSE Min(k, size)
        a == clip(start)
        b == clip(stop)
    IN  [k \in 1..Max(b - a, 0) |-> a + k - 1]

\* the lines drawn: line k has the angle 180 * golden * k
LineNumbers(num_lines, offset) ==
    (offset * num_lines)..((offset + 1) * num_lines - 1)

\* (out > 0)[i, j] on the d x d template, i and j counted from 0. Line 0
\* has the angle 0 and is the template line itself, the row d // 2; the
\* other lines are rotations of it by skimage, left symbolic. All of them
\* are >= 0, so the entry is True iff line0 holds or one of the rotated
\* lines is positive there
OutPositive(d, lines, i, j) ==
    [line0 |-> 0 \in lines /\ i = d \div 2,
     rotated |-> {<<"rotate", k, i, j>> : k \in lines \ {0}}]

\* a crop that ends floor(x / 2) past the centre
cropFloor(d, x) == <<d \div 2 - x \div 2, d \div 2 + x \div 2>>

\* the bounds of the crop of one axis of the template to the length x:
\* d // 2 - math.floor(x / 2) : d // 2 + math.ceil(x / 2)
crop(d, x) == <<d \div 2 - x \div 2, d \div 2 + (x + 1) \div 2>>

\* RadialMaskFunc._generate_radial_mask
generate_radial_mask(shape, num_lines, offset) ==
    LET x == shape[1]
        y == shape[2]
        d == CeilSqrt2Times(Max(x, y))
        lines == LineNumbers(num_lines, offset)
        rows == PySlice(d, crop(d, x)[1], crop(d, x)[2])
        cols == PySlice(d, crop(d, y)[1], crop(d, y)[2])
    IN  [dtype |-> "bool",
         d |-> d,
         crop |-> <<crop(d, x), crop(d, y)>>,
         shape |-> <<Len(rows), Len(cols)>>,
         data |-> V([i \in 1..Len(rows) |-> V([j \in 1..Len(cols) |->
                     OutPositive(d, lines, rows[i], cols[j])])])]

\* RadialMaskFunc.__init__
RadialMaskFunc(shape, num_lines, offset) ==
    [shape |-> shape, num_lines |-> num_lines, offset |-> offset,
     mask |-> generate_radial_mask(shape, num_lines, offset)]

\* RadialMaskFunc.__call__: shape is the shape of the data to be masked,
\* (..., x, y, 2)
RadialMaskCall(self, shape) ==
    IF Len(shape) < 3
    THEN Raise("IndexError")
    ELSE IF ~(/\ self.mask.shape[1] = shape[Len(shape) - 2]
              /\ self.mask.shape[2] = shape[Len(shape) - 1])
    THEN Raise("AssertionError")
    ELSE IF self.mask.shape[1] * self.mask.shape[2]
              # self.shape[1] * self.shape[2]
    THEN Raise("RuntimeError")
    ELSE Ret([shape |-> [k \in 1..(Len(shape) - 3) |-> 1] \o self.shape \o <<1>>,
              dtype |-> self.mask.dtype,
              data |-> self.mask.data])

\* the shapes the mask function is called with: no batch axes at all,
\* an image, a batch of one image
RmShapes ==
    LET D == (1..MaxRmDim) \X (1..MaxRmDim)
    IN  D \cup {xy \o <<2>> : xy \in D} \cup {<<1>> \o xy \o <<2>> : xy \in D}

\* no mask function exists
RmAbsent ==
    /\ rmSelf = NotCalled
    /\ rmArg = <<>>
    /\ rmOut = NotCalled

\* mask_func = RadialMaskFunc(shape, num_lines, offset)
RmConstructed ==
    /\ rmSelf \in {RadialMaskFunc(shape, num_lines, offset) :
                     shape \in (1..MaxRmDim) \X (1..MaxRmDim),
                     num_lines \in 0..MaxLines,
                     offset \in 0..1}
    /\ rmArg = <<>>
    /\ rmOut = NotCalled

\* mask_func(shape)
RmCall ==
    /\ rmOut.st = "none"
    /\ \E shape \in RmShapes :
         /\ rmArg' = shape
         /\ rmOut' = RadialMaskCall(rmSelf, shape)
    /\ UNCHANGED rmSelf

\* the caller drops the mask
RmDiscard ==
    /\ rmOut.st # "none"
    /\ rmArg' = <<>>
    /\ rmOut' = NotCalled
    /\ UNCHANGED rmSelf

(***************************************************************************)
(* Specifications                                                          *)
(***************************************************************************)
\* no TVAnalysisPeriodic operator exists
TVAbsent ==
    /\ tvN = <<0, 0>>
    /\ tvM = 0
    /\ tvX = <<>>
    /\ tvDotOut = NotCalled
    /\ tvY = <<>>
    /\ tvAdjOut = NotCalled
    /\ tvInvY = <<>>
    /\ tvInvOut = NotCalled
    /\ tvKernel = NotCalled

\* no Fourier operator exists
FoAbsent ==
    /\ foKind = "none"
    /\ foMaskT = <<>>
    /\ foM = 0
    /\ foN = <<0, 0>>
    /\ foMask = <<>>
    /\ foOrig = <<>>
    /\ foCalls = <<>>
    /\ foOuts = <<>>

\* no Wavelet operator exists
WvAbsent ==
    /\ wvN = <<0, 0>>
    /\ wvLevel = 0
    /\ wvSlices = <<>>
    /\ wvOutShape = <<0, 0>>
    /\ wvM = 0
    /\ wvOrig = <<>>
    /\ wvCalls = <<>>
    /\ wvOuts = <<>>

\* Radon.__init__ was not called
RdAbsent ==
    /\ rdArgs = <<>>
    /\ rdSelf = NotCalled
    /\ rdOrig = <<>>
    /\ rdCalls = <<>>
    /\ rdOuts = <<>>

\* no CGInverterLayer exists
CGAbsent ==
    /\ cgOpts = <<>>
    /\ cgIn = <<>>
    /\ cgCtx = <<>>
    /\ cgFwd = NotCalled
    /\ cgDX = <<>>
    /\ cgBwd = NotCalled
    /\ cgLog = <<>>

TVNext ==
    /\ tvM # 0
    /\ \/ TVDotCall
       \/ TVAdjCall
       \/ TVInvCall
       \/ TVKernelCall
       \/ TVDiscard
    /\ UNCHANGED <<foVars, wvVars, rdVars, cgVars, enVars, shVars, gsVars, tkVars, rmVars>>

TVInit == TVConstructed /\ FoAbsent /\ WvAbsent /\ RdAbsent /\ CGAbsent /\ EnAbsent /\ ShAbsent /\ GsAbsent /\ TkAbsent /\ RmAbsent

SpecTV == TVInit /\ [][TVNext]_vars

FoNext ==
    /\ foKind # "none"
    /\ \/ FoDotCall
       \/ FoAdjCall
       \/ FoInvCall
       \/ FoTikhCall
       \/ FoDotOfResult
       \/ FoAdjOfResult
       \/ FoDiscard
    /\ UNCHANGED <<tvVars, wvVars, rdVars, cgVars, enVars, shVars, gsVars, tkVars, rmVars>>

FoInit == FoConstructed /\ TVAbsent /\ WvAbsent /\ RdAbsent /\ CGAbsent /\ EnAbsent /\ ShAbsent /\ GsAbsent /\ TkAbsent /\ RmAbsent

SpecFourier == FoInit /\ [][FoNext]_vars

WvNext ==
    /\ wvM # 0
    /\ \/ WvDotCall
       \/ WvAdjCall
       \/ WvInvCall
       \/ WvAdjOfResult
       \/ WvDiscard
    /\ UNCHANGED <<tvVars, foVars, rdVars, cgVars, enVars, shVars, gsVars, tkVars, rmVars>>

WvInit == WvConstructed /\ TVAbsent /\ FoAbsent /\ RdAbsent /\ CGAbsent /\ EnAbsent /\ ShAbsent /\ GsAbsent /\ TkAbsent /\ RmAbsent

SpecWavelet == WvInit /\ [][WvNext]_vars

RdNext ==
    /\ rdSelf.st = "ok"
    /\ \/ RdDotCall
       \/ RdAdjCall
       \/ RdInvCall
       \/ RdAdjOfResult
       \/ RdDiscard
    /\ UNCHANGED <<tvVars, foVars, wvVars, cgVars, enVars, shVars, gsVars, tkVars, rmVars>>

RdInit == RdConstructed /\ TVAbsent /\ FoAbsent /\ WvAbsent /\ CGAbsent /\ EnAbsent /\ ShAbsent /\ GsAbsent /\ TkAbsent /\ RmAbsent

SpecRadon == RdInit /\ [][RdNext]_vars

CGNext ==
    /\ \/ CGForwardCall
       \/ CGBackwardCall
       \/ CGDiscard
    /\ UNCHANGED <<tvVars, foVars, wvVars, rdVars, enVars, shVars, gsVars, tkVars, rmVars>>

CGInit == CGConstructed /\ TVAbsent /\ FoAbsent /\ WvAbsent /\ RdAbsent /\ EnAbsent /\ ShAbsent /\ GsAbsent /\ TkAbsent /\ RmAbsent

SpecCG == CGInit /\ [][CGNext]_vars

\* a step of a running loop
EnStep ==
    /\ \/ EnCGStep
       \/ EnXUpdate
       \/ EnZUpdate
       \/ EnUUpdate
       \/ EnConverge
       \/ EnExhaust
    /\ UNCHANGED <<tvVars, foVars, wvVars, rdVars, cgVars, shVars, gsVars, tkVars, rmVars>>

EnNext ==
    \/ EnStep
    \/ /\ \/ EnReconstructCall
          \/ EnCGSolveCall
          \/ EnDiscard
       /\ UNCHANGED <<tvVars, foVars, wvVars, rdVars, cgVars, shVars, gsVars, tkVars, rmVars>>

EnInit == EnAbsent /\ TVAbsent /\ FoAbsent /\ WvAbsent /\ RdAbsent /\ CGAbsent /\ ShAbsent /\ GsAbsent /\ TkAbsent /\ RmAbsent

SpecEngine == EnInit /\ [][EnNext]_vars

\* a loop that was started keeps running: the loops are blocking
FairSpecEngine == SpecEngine /\ WF_vars(EnStep)

ShNext ==
    /\ \/ ShrinkCall
       \/ ShrinkRecursiveCall
       \/ ShDiscard
    /\ UNCHANGED <<tvVars, foVars, wvVars, rdVars, cgVars, enVars, gsVars, tkVars, rmVars>>

ShInit ==
    /\ ShAbsent /\ TVAbsent /\ FoAbsent /\ WvAbsent /\ RdAbsent /\ CGAbsent
    /\ EnAbsent /\ GsAbsent /\ TkAbsent /\ RmAbsent

SpecShrink == ShInit /\ [][ShNext]_vars

GsNext ==
    /\ \/ GsEvaluate
       \/ GsReturn
       \/ GsSave
    /\ UNCHANGED <<tvVars, foVars, wvVars, rdVars, cgVars, enVars, shVars, tkVars, rmVars>>

GsInit ==
    /\ GsStarted /\ TVAbsent /\ FoAbsent /\ WvAbsent /\ RdAbsent /\ CGAbsent
    /\ EnAbsent /\ ShAbsent /\ TkAbsent /\ RmAbsent

SpecGridSearch == GsInit /\ [][GsNext]_vars

TkNext ==
    /\ \/ TkKernelCall
       \/ TkTikhCall
       \/ TkDiscard
    /\ UNCHANGED <<tvVars, foVars, wvVars, rdVars, cgVars, enVars, shVars, gsVars,
                   rmVars>>

TkInit ==
    /\ TkConstructed /\ TVAbsent /\ FoAbsent /\ WvAbsent /\ RdAbsent /\ CGAbsent
    /\ EnAbsent /\ ShAbsent /\ GsAbsent /\ RmAbsent

SpecTikh == TkInit /\ [][TkNext]_vars

RmNext ==
    /\ \/ RmCall
       \/ RmDiscard
    /\ UNCHANGED <<tvVars, foVars, wvVars, rdVars, cgVars, enVars, shVars, gsVars,
                   tkVars>>

RmInit ==
    /\ RmConstructed /\ TVAbsent /\ FoAbsent /\ WvAbsent /\ RdAbsent /\ CGAbsent
    /\ EnAbsent /\ ShAbsent /\ GsAbsent /\ TkAbsent

SpecRadialMask == RmInit /\ [][RmNext]_vars

\* any one of the linear operators, constructed and then used
OperatorsInit == TVInit \/ FoInit \/ WvInit \/ RdInit

OperatorsNext == TVNext \/ FoNext \/ WvNext \/ RdNext

SpecOperators == OperatorsInit /\ [][OperatorsNext]_vars

(***************************************************************************)
(* Claims                                                                  *)
(***************************************************************************)
\* C1: for every domain (n0, n1), every image x and every vector y of
\* length 2*n0*n1, adj(y) raises no indexing error and
\* <dot(x), y> = <x, adj(y)>.
C1_AdjIsTranspose ==
    (tvDotOut.st = "ok" /\ tvAdjOut.st # "none") =>
        /\ tvAdjOut.st = "ok"
        /\ Inner(tvDotOut.val, tvY) = Inner(im2vec(tvX), im2vec(tvAdjOut.val))

\* a complex image of the operator's domain: shape (2, n0, n1)
FoValidImage(x) ==
    /\ Len(x.v) = 2
    /\ <<Len(x.v[1]), Len(x.v[1][1])>> = foN

\* a complex measurement: one value per sampled frequency, shape (2, count)
FoValidMeasurement(y) ==
    /\ Len(y.v) = 2
    /\ Len(y.v[1]) = CountTrue(im2vec(foMask))

\* the row-major position of the q-th true entry of a boolean vector
TruePosition(b, q) ==
    CHOOSE p \in 1..Len(b) : b[p] /\ CountTrue(SubSeq(b, 1, p)) = q

\* C2: m is the number of true entries of self.mask, and dot(x) returns per
\* channel exactly m values, the entries of the full 2D transform at the
\* true positions of self.mask in row-major order.
C2_MCountsAppliedMask ==
    /\ foKind # "none" => foM = CountTrue(im2vec(foMask))
    /\ (foCalls # <<>> /\ foCalls[1] = "dot" /\ FoValidImage(foOrig)) =>
          /\ foOuts[1].st = "ok"
          /\ \A c \in 1..2 : Len(foOuts[1].val.v[c]) = foM
          /\ foOuts[1].val =
                CanonMeas(1,
                    V([c \in 1..2 |->
                         V([q \in 1..CountTrue(im2vec(foMask)) |->
                              im2vec(FullFFT(foKind, foN, foOrig.v)[c])
                                  [TruePosition(im2vec(foMask), q)]])]),
                    foN[1] * foN[2])

\* C3: for any mask, the transform of adj(y) is zero at every unsampled
\* frequency and dot(adj(y)) = y for every measurement y; hence
\* dot(adj(dot(x))) = dot(x) for every image x; with a fully sampled mask
\* adj(dot(x)) = x.  inv is adj.
C3_RoundTrip ==
    /\ (foCalls # <<>> /\ foCalls[1] \in {"adj", "inv"}
            /\ FoValidMeasurement(foOrig)) =>
          /\ foOuts[1].st = "ok"
          /\ \A c \in 1..2, p \in 1..(foN[1] * foN[2]) :
                im2vec(foMask)[p] \/
                    im2vec(FullFFT(foKind, foN, foOuts[1].val.v)[c])[p] = 0
          /\ Len(foCalls) >= 2 =>
                foOuts[2].st = "ok" /\ foOuts[2].val = foOrig
    /\ (foCalls # <<>> /\ foCalls[1] = "dot" /\ FoValidImage(foOrig)) =>
          /\ Len(foCalls) >= 2 => foOuts[2].st = "ok"
          /\ Len(foCalls) >= 3 =>
                foOuts[3].st = "ok" /\ foOuts[3].val = foOuts[1].val
          /\ (Len(foCalls) >= 2 /\ \A p \in 1..(foN[1] * foN[2]) :
                                       im2vec(foMask)[p]) =>
                foOuts[2].val = foOrig

\* C3 witness: dot(adj(dot(x))) was computed for an image x with
\* dot(x) # 0, under a mask that samples some frequencies and not others
C3_Witness ==
    /\ foCalls = <<"dot", "adj", "dot">>
    /\ FoValidImage(foOrig)
    /\ \E p, q \in 1..(foN[1] * foN[2]) :
          im2vec(foMask)[p] /\ ~im2vec(foMask)[q]
    /\ \E c \in 1..2, q \in 1..Len(foOuts[1].val.v[1]) :
          foOuts[1].val.v[c][q] # 0
    /\ foOuts[3].val = foOuts[1].val

\* C7: at dot and adj of the Fourier operators, an input whose channel
\* count is not in {1, 2}, or an image whose trailing two dimensions differ
\* from the mask's, is reported as a failure and never transformed into a
\* result.
C7_InvalidInputRejected ==
    /\ (foCalls # <<>> /\ foCalls[1] = "dot"
            /\ (Len(foOrig.v) \notin {1, 2}
                   \/ <<Len(foOrig.v[1]), Len(foOrig.v[1][1])>> # foN)) =>
          foOuts[1].st # "ok"
    /\ (foCalls # <<>> /\ foCalls[1] = "adj"
            /\ Len(foOrig.v) \notin {1, 2}) =>
          foOuts[1].st # "ok"

\* C8: tikh(rhs, kernel, rho) reports an error for rho = 0 and for negative
\* rho instead of performing the division.
C8_NonPositiveRhoRejected ==
    (foCalls # <<>> /\ foCalls[1] = "tikh" /\ foOrig.rho <= 0) =>
        foOuts[1].st # "ok"

\* C4: for every Wavelet domain (n1, n2) and level, and every real image x
\* of the domain's height and width (C = 1, batched or not), adj(dot(x))
\* is returned, its last two dimensions are (n1, n2), and its values are
\* those of x.
C4_AdjInvertsDot ==
    (wvCalls = <<"dot", "adj">> /\ wvOrig.lead[Len(wvOrig.lead)] = 1) =>
        /\ wvOuts[2].st = "ok"
        /\ \A p \in 1..Len(wvOuts[2].val.planes) :
               <<Rows(wvOuts[2].val.planes[p]), Cols(wvOuts[2].val.planes[p])>> = wvN
        /\ wvOuts[2].val.planes = wvOrig.planes
        /\ wvOuts[2].val.den = wvOrig.den

\* C5: every operator preserves the layout.  For an image of shape
\* (*, C, H, W), C = 1 or 2, batched or not, dot returns a measurement of
\* the same leading dimensions (*, C), and adj of that measurement returns
\* an image of the input's shape.  (Fourier is asked for its own domain,
\* C = 2, only; of TVAnalysisPeriodic the model keeps one (H, W) plane,
\* whose shape adj has to give back.)
C5_LayoutPreserved ==
    /\ (wvCalls # <<>> /\ wvCalls[1] = "dot") =>
          /\ wvOuts[1].st = "ok"
          /\ wvOuts[1].val.lead = wvOrig.lead
          /\ Len(wvCalls) = 2 =>
                /\ wvOuts[2].st = "ok"
                /\ wvOuts[2].val.lead = wvOrig.lead
                /\ \A p \in 1..Len(wvOuts[2].val.planes) :
                       <<Rows(wvOuts[2].val.planes[p]),
                         Cols(wvOuts[2].val.planes[p])>> = wvN
    /\ (rdCalls # <<>> /\ rdCalls[1] = "dot") =>
          /\ rdOuts[1].st = "ok"
          /\ SubSeq(rdOuts[1].val.shape, 1, Len(rdOuts[1].val.shape) - 1)
                = SubSeq(rdOrig.shape, 1, Len(rdOrig.shape) - 2)
          /\ Len(rdCalls) = 2 =>
                /\ rdOuts[2].st = "ok"
                /\ rdOuts[2].val.shape = rdOrig.shape
    /\ (foCalls # <<>> /\ foCalls[1] = "dot" /\ FoValidImage(foOrig)) =>
          /\ foOuts[1].st = "ok"
          /\ Len(foOuts[1].val.v) = 2
          /\ (Len(foCalls) >= 2 /\ foCalls[2] = "adj") =>
                /\ foOuts[2].st = "ok"
                /\ FoValidImage(foOuts[2].val)
    /\ tvDotOut.st # "none" =>
          /\ tvDotOut.st = "ok"
          /\ Len(tvDotOut.val) = tvM
    /\ tvAdjOut.st = "ok" =>
          <<Rows(tvAdjOut.val), Cols(tvAdjOut.val)>> = tvN

\* C6: inv of TVAnalysisPeriodic and inv of Wavelet raise
\* NotImplementedError for every input y; they never return a value.
C6_InvNotSupported ==
    /\ tvInvOut.st \in {"none", "NotImplementedError"}
    /\ (wvCalls # <<>> /\ wvCalls[1] = "inv") =>
          wvOuts[1].st = "NotImplementedError"

\* inv of TVAnalysisPeriodic was called on a nonzero vector and raised
C6_Witness ==
    /\ tvInvY # <<>>
    /\ tvInvY[tvM] = 1
    /\ tvInvOut.st = "NotImplementedError"

\* C9: Radon.__init__ on a domain with n[0] # n[1] raises AssertionError,
\* and no call is ever made on that operator; on a square domain it
\* succeeds, with m the product of the shape the transform gives for the
\* zero image of shape (1, 1, n0, n1).
C9_RadonConstruction ==
    rdSelf.st # "none" =>
        /\ rdArgs.n[1] # rdArgs.n[2] =>
              /\ rdSelf.st = "AssertionError"
              /\ rdCalls = <<>>
        /\ rdArgs.n[1] = rdArgs.n[2] =>
              /\ rdSelf.st = "ok"
              /\ rdSelf.val.m = Product(RadonOutShape(<<1, 1>> \o rdArgs.n,
                                                      rdArgs.angles))

\* the constructor was given a non-square domain and raised
C9_Witness ==
    /\ rdSelf.st = "AssertionError"
    /\ rdArgs.n = <<1, 2>>

\* the tensors backward computed: the log after the solve of forward
CGBackwardLog == SubSeq(cgLog, 2, Len(cgLog))

\* C10: backward returns one gradient per input (B, X0).  For an input
\* that does not require gradients (X0 = None included) the gradient is
\* None and nothing was computed for it: no solve for B, no product for
\* X0.  For X0 requiring gradients it is 0.0 * dX, of dX's shape.  For B
\* requiring gradients it is the iterate of the CG solve for dX, of dX's
\* shape.
C10_BackwardGradients ==
    cgBwd.st # "none" =>
        /\ cgBwd.st = "ok"
        /\ Len(cgBwd.val) = 2
        /\ ~cgCtx[1] =>
              /\ cgBwd.val[1] = None
              /\ \A k \in 1..Len(CGBackwardLog) : CGBackwardLog[k][1] # "cg_batch"
        /\ ~cgCtx[2] =>
              /\ cgBwd.val[2] = None
              /\ \A k \in 1..Len(CGBackwardLog) : CGBackwardLog[k][1] # "mul"
        /\ cgCtx[2] =>
              /\ cgBwd.val[2].shape = cgDX.shape
              /\ cgBwd.val[2].data = <<"mul", "0.0", cgDX.data>>
        /\ cgCtx[1] =>
              /\ cgBwd.val[1].shape = cgDX.shape
              /\ cgBwd.val[1].data[1] = "cg_batch"
              /\ cgBwd.val[1].data[2] = cgDX.data

\* C11: the gradient for B that backward(dX) returns is what forward
\* returns for the right-hand side dX and X0 = None: the iterate of the
\* solve with the same M_bmm, rtol, atol and maxiter, in dX's shape.
C11_BackwardIsForwardSolve ==
    (cgBwd.st = "ok" /\ cgCtx[1]) =>
        LET f == CGForward(cgOpts, cgDX, None).out
        IN  /\ f.st = "ok"
            /\ cgBwd.val[1].shape = f.val.shape
            /\ cgBwd.val[1].data = f.val.data

\* backward ran for a B requiring gradients on a layer with a
\* preconditioner and its own rtol and maxiter
C11_Witness ==
    /\ cgBwd.st = "ok"
    /\ cgCtx[1]
    /\ cgOpts.M_bmm = "M_bmm"
    /\ cgOpts.rtol = "1e-3"
    /\ cgOpts.maxiter = "10"
    /\ cgIn[2] # None

\* what the caller of the layer holds after forward: the returned tensor
CGCallerHolds == {cgFwd.val.data}

\* C12: after every solve of forward the caller of the layer holds, with
\* the iterate, the diagnostics of that solve (residual reached, number of
\* iterations).
C12_DiagnosticsExposed ==
    cgFwd.st = "ok" =>
        cg_batch_info(cgIn[1].data, cgOpts.M_bmm, cgIn[2].data,
                      cgOpts.rtol, cgOpts.atol, cgOpts.maxiter) \in CGCallerHolds

\* the iteration cap the caller of the running engine configured: iter of
\* _reconstruct, maxiter of the CG layer (None: 5 * n of cg_batch)
ConfiguredCap ==
    IF enCall[1] = "_reconstruct"
    THEN IF enCall[2] = "l1_fourier" THEN 1000 ELSE 10
    ELSE IF enCall[2] = "None" THEN 5 * enCall[3] ELSE 10

\* C13: every CG solve and every ADMM reconstruction makes at most as many
\* iterations as the cap its caller configured, goes from Init to Converged
\* or IterationBudgetExhausted, and returns the last iterate in both cases:
\* reaching the cap is not an error
C13_BoundedLoop ==
    /\ [](enState # "Idle" => enK <= ConfiguredCap)
    /\ [](EnDone => /\ enOut.st = "ok"
                    /\ enOut.val.x = enX
                    /\ enOut.val.niter = enK)
    /\ [](enState = "IterationBudgetExhausted" => enK = ConfiguredCap)
    /\ ((enState = "Init") ~> EnDone)

C13_Witness ==
    /\ enState = "IterationBudgetExhausted"
    /\ enCall[1] = "_reconstruct"
    /\ enCall[2] = "l1_fourier"
    /\ enK = 1000
    /\ enOut.st = "ok"
    /\ It(enOut.val.x) = 1000

\* C14: an ADMM run starts once from the warm start (x_init, w_init) of the
\* caller; in iteration k the x-update comes first, then z is the
\* soft-threshold of W x_k + u_(k-1) with threshold lam / rho, then
\* u_k = u_(k-1) + W x_k - z_k; no update is skipped or reordered
C14_UpdateOrder ==
    (enState # "Idle" /\ enCall[1] = "_reconstruct") =>
        LET W == IF enCall[2] = "l1_fourier" THEN "OpTV" ELSE "OpW"
            kx == IF enPhase = "x" THEN enK ELSE enK + 1
            kz == IF enPhase = "u" THEN enK + 1 ELSE enK
        IN  /\ It(enX) = kx /\ It(enZ) = kz /\ It(enU) = enK
            /\ IF kx = 0
               THEN enX = <<"init", <<"adj", "OpA", "Y_ref">>>>
               ELSE enX = <<"x", kx, kx - 1, kx - 1>>
            /\ IF kz = 0
               THEN enZ = <<"init", <<"dot", W, <<"adj", "OpA", "Y_ref">>>>>>
               ELSE enZ = <<"z", kz, kz, kz - 1, <<enCall[3], "/", enCall[4]>>>>
            /\ IF enK = 0
               THEN enU[1] = "init"
               ELSE enU = <<"u", enK, enK - 1, enK, enK>>

C14_Witness ==
    /\ enCall # <<>>
    /\ enCall[1] = "_reconstruct"
    /\ enCall[2] = "l1_wavelet"
    /\ enK = 3
    /\ enPhase = "u"
    /\ It(enZ) = 4

\* the tensors of a nested list, in order
RECURSIVE Leaves(_)
Leaves(c) ==
    IF c[1] = "tensor" THEN <<c[2]>>
    ELSE IF Len(c[2]) = 0 THEN <<>>
    ELSE Leaves(c[2][1]) \o Leaves(<<"list", Tail(c[2])>>)

Sign(v) == IF v > 0 THEN 1 ELSE IF v < 0 THEN -1 ELSE 0

Abs(v) == IF v < 0 THEN -v ELSE v

\* C15: for every threshold t >= 0 shrink returns, entry by entry,
\* sign(v) * max(|v| - t, 0): of the sign of v where nonzero, zero where
\* |v| <= t, and v itself when t = 0; no threshold t >= 0 raises
C15_SoftThreshold ==
    (shOut.st # "none" /\ shThresh >= 0) =>
        /\ shOut.st = "ok"
        /\ LET in == Leaves(shC)
               out == Leaves(shOut.val)
           IN  /\ Len(out) = Len(in)
               /\ \A k \in 1..Len(in) :
                    /\ Len(out[k]) = Len(in[k])
                    /\ \A i \in 1..Len(in[k]) :
                         LET v == in[k][i]
                             s == out[k][i]
                         IN  /\ s = Sign(v) * Max(Abs(v) - shThresh, 0)
                             /\ s # 0 => Sign(s) = Sign(v)
                             /\ Abs(v) <= shThresh => s = 0
                             /\ shThresh = 0 => s = v

C15_Witness ==
    /\ shOut.st = "ok"
    /\ shThresh = 1
    /\ shC = <<"tensor", <<2, -1>>>>
    /\ shOut.val = <<"tensor", <<1, 0>>>>

\* the four points of the 2 x 2 grid of the Fourier script, in
\* enumeration order
FourPoints ==
    <<[lam |-> <<"10^", -6, 1>>, rho |-> <<"10^", -5, 1>>],
      [lam |-> <<"10^", -6, 1>>, rho |-> <<"10^", 1, 1>>],
      [lam |-> <<"10^", -1, 1>>, rho |-> <<"10^", -5, 1>>],
      [lam |-> <<"10^", -1, 1>>, rho |-> <<"10^", 1, 1>>]>>

\* C16: grid_search runs the reconstruction exactly once per grid point
\* (|lam| * |rho| runs), returns the full error surface and the grid point
\* of smallest error among the evaluated points; among several points of
\* minimal error the first in enumeration order is returned
C16_GridSearchArgmin ==
    /\ Len(gsRuns) <= Len(FourPoints)
    /\ \A k \in 1..Len(gsRuns) :
         gsRuns[k].lam = FourPoints[k].lam /\ gsRuns[k].rho = FourPoints[k].rho
    /\ gsOut.st = "ok" =>
         LET r == gsOut.val
             n == Len(grid("l1_fourier").lam) * Len(grid("l1_fourier").rho)
             first == CHOOSE k \in 1..n :
                        /\ \A j \in 1..n : r.err[k] <= r.err[j]
                        /\ \A j \in 1..(k - 1) : r.err[j] > r.err[k]
         IN  /\ Len(gsRuns) = n
             /\ Len(r.err) = n
             /\ r.err = gsErr
             /\ r.grid_param = FourPoints[first]
             /\ r.err_min = r.err[first]

C16_Witness ==
    /\ gsOut.st = "ok"
    /\ gsOut.val.err = <<1, 0, 2, 0>>
    /\ gsOut.val.grid_param = FourPoints[2]
    /\ gsIdx = 3

\* the fields of the operators are what their constructors computed
FieldsAsConstructed ==
    /\ tvM # 0 => tvM = tvN[1] * tvN[2] * 2
    /\ foKind # "none" => /\ foM = FourierM(foMaskT)
                          /\ foN = FourierN(foMaskT)
                          /\ foMask = FourierMask(foMaskT)
    /\ wvM # 0 => /\ wvSlices = get_slices(wvN, wvLevel)
                  /\ wvOutShape = get_slices(wvN, wvLevel).shape
                  /\ wvM = wvOutShape[1] * wvOutShape[2]
    /\ rdSelf.st # "none" => rdSelf = RadonInit(rdArgs.n, rdArgs.angles)

\* a call of the Fourier operators repeated on the same input gives the
\* same result: the third call of a chain whose second call gave back the
\* input of the first
RepeatGivesSame ==
    (/\ Len(foCalls) = 3
     /\ foCalls[1] = foCalls[3]
     /\ foOuts[2].val = foOrig) => foOuts[3] = foOuts[1]

\* a step changes no field of an operator, and a call chained on a result
\* leaves that result and everything before it as it was
FrameStep ==
    /\ <<tvN, tvM>>' = <<tvN, tvM>>
    /\ <<foKind, foMaskT, foM, foN, foMask>>' = <<foKind, foMaskT, foM, foN, foMask>>
    /\ <<wvN, wvLevel, wvSlices, wvOutShape, wvM>>'
         = <<wvN, wvLevel, wvSlices, wvOutShape, wvM>>
    /\ <<rdArgs, rdSelf>>' = <<rdArgs, rdSelf>>
    /\ (foCalls # <<>> /\ foCalls' # <<>>) =>
          /\ foOrig' = foOrig
          /\ SubSeq(foOuts', 1, Len(foOuts)) = foOuts
    /\ (wvCalls # <<>> /\ wvCalls' # <<>>) =>
          /\ wvOrig' = wvOrig
          /\ SubSeq(wvOuts', 1, Len(wvOuts)) = wvOuts
    /\ (rdCalls # <<>> /\ rdCalls' # <<>>) =>
          /\ rdOrig' = rdOrig
          /\ SubSeq(rdOuts', 1, Len(rdOuts)) = rdOuts
    /\ (tvDotOut.st # "none" /\ tvDotOut'.st # "none") => tvX' = tvX
    /\ (tvAdjOut.st # "none" /\ tvAdjOut'.st # "none") => tvY' = tvY

\* C17: dot, adj, inv and tikh leave the operator's fields (m, n, mask,
\* wavelet slices and shapes, Radon scale factor) and their input
\* unchanged: after every sequence of calls the fields are what the
\* constructor computed, and a call repeated on the same input gives the
\* same result
C17_OperatorsStateless ==
    /\ [](FieldsAsConstructed /\ RepeatGivesSame)
    /\ [][FrameStep]_vars

C17_Witness ==
    /\ Len(foCalls) = 3
    /\ foCalls = <<"adj", "dot", "adj">>
    /\ foOuts[2].val = foOrig
    /\ foOuts[3].st = "ok"
    /\ foM = 1

\* C18: a CGInverterLayer constructed without tolerance or iteration
\* options solves with the documented defaults: rtol 1e-3, atol 0.0 and at
\* most 5 * n1 * n2 iterations
C18_DocumentedDefaults ==
    (/\ cgFwd.st = "ok"
     /\ \E M \in {"None", "M_bmm"} : cgOpts = CGInverterFunc(M, <<>>)) =>
        LET solve == cgFwd.val.data
            shape == cgIn[1].shape
        IN  /\ solve[5] = "1e-3"
            /\ solve[6] = "0.0"
            /\ CGMaxIter(solve[7], flattenShape(shape)[2]) = 5 * shape[3] * shape[4]

\* the unit impulse at position (0, 0) of the domain n
TVDelta(n) == V([i \in 1..n[1] |-> V([j \in 1..n[2] |->
                 IF i = 1 /\ j = 1 THEN 1 ELSE 0])])

\* C19: for every domain size, sides 1 and 2 included, the spatial kernel
\* that get_fourier_kernel transforms is adj(dot(delta)) for the unit
\* impulse delta at (0, 0)
C19_KernelIsImpulseResponse ==
    tvKernel.st # "none" =>
        LET response == TVadj(tvN, TVdot(TVDelta(tvN)).val)
        IN  /\ tvKernel.st = "ok"
            /\ response.st = "ok"
            /\ tvKernel.val[2][2] = response.val

\* the argument of call i of the current chain of Radon calls
RdInput(i) == IF i = 1 THEN rdOrig ELSE rdOuts[i - 1].val

\* C20: Radon.adj returns the unfiltered back-projection of the measurement
\* multiplied by pi / (2 * num_angles), and an unbatched measurement gives
\* what the batch of one holding it gives
C20_AdjRescaled ==
    \A i \in 1..Len(rdCalls) :
        (rdCalls[i] = "adj" /\ rdOuts[i].st = "ok") =>
            LET y == RdInput(i)
                out == rdOuts[i].val
                one == RadonAdj(rdSelf.val, [shape |-> <<1>> \o y.shape,
                                             data |-> y.data])
            IN  /\ out.data = <<"mul", <<"iradon", "none", y.data>>,
                                <<"pi/", 2 * rdArgs.angles>>>>
                /\ Len(y.shape) = 2 =>
                     /\ one.st = "ok"
                     /\ one.val.data = out.data
                     /\ one.val.shape = <<1>> \o out.shape

\* C21: in tikh with rho > 0 and the finite-difference kernel the divisor
\* Mask + rho * Kernel is nonzero at every frequency, whatever the mask:
\* the solve never divides by zero
C21_DivisorNonzero ==
    (tkOut.st # "none" /\ tkRho > 0) =>
        /\ tkOut.st = "ok"
        /\ tkOut.val.finite
        /\ \A i \in 1..tkN[1], j \in 1..tkN[2] :
             tkOut.val.divisor[i][j] # <<0, 0>>

\* the mask dimensions of the shape the mask function was called with
RmArgDims == <<rmArg[Len(rmArg) - 2], rmArg[Len(rmArg) - 1]>>

\* C22: for every size (x, y) with x, y >= 1 the crop of the d x d
\* template, d = ceil(sqrt(2) * max(x, y)), has bounds inside the template
\* and the mask is boolean of exactly shape (x, y), x and y even or odd;
\* a call with a shape whose mask dimensions are not (x, y) fails the
\* assertion and returns no mask
C22_MaskShape ==
    LET m == rmSelf.mask
        x == rmSelf.shape[1]
        y == rmSelf.shape[2]
    IN  /\ m.d = CeilSqrt2Times(Max(x, y))
        /\ \A a \in 1..2 : /\ 0 <= m.crop[a][1]
                           /\ m.crop[a][1] <= m.crop[a][2]
                           /\ m.crop[a][2] <= m.d
        /\ m.crop[1][2] - m.crop[1][1] = x
        /\ m.crop[2][2] - m.crop[2][1] = y
        /\ m.dtype = "bool"
        /\ m.shape = <<x, y>>
        /\ Len(m.data) = x
        /\ \A i \in 1..x : Len(m.data[i]) = y
        /\ rmOut.st # "none" =>
             IF Len(rmArg) < 3
             THEN rmOut = Raise("IndexError")
             ELSE IF RmArgDims # <<x, y>>
             THEN rmOut = Raise("AssertionError")
             ELSE /\ rmOut.st = "ok"
                  /\ rmOut.val.data = m.data
                  /\ rmOut.val.shape =
                       [k \in 1..(Len(rmArg) - 3) |-> 1] \o <<x, y, 1>>

\* an odd by even mask with one line was built, and a call for a batch of
\* even by odd images was turned down
C22_Witness ==
    /\ rmSelf.shape = <<3, 2>>
    /\ rmSelf.num_lines = 1
    /\ rmSelf.offset = 0
    /\ \A i \in 1..3, j \in 1..2 :
         rmSelf.mask.data[i][j] = [line0 |-> i = 2, rotated |-> {}]
    /\ rmArg = <<1, 2, 3, 2>>
    /\ rmOut = Raise("AssertionError")

====
